---- MODULE Spec2Model ----
(***************************************************************************)
(* MasterFrameworkControls: the interrogators (checkers), the execution    *)
(* engine with its results processor, and the coverage validator.          *)
(*                                                                         *)
(* Three specifications share the variables below:                         *)
(*   Spec        one call of an interrogator's execute(control, context)   *)
(*   SpecEngine  ExecutionEngine.execute over a loaded control catalog     *)
(*   SpecCov     CoverageValidator.validate_coverage, called repeatedly    *)
(***************************************************************************)
EXTENDS Integers, Sequences, FiniteSets, TLC

VARIABLES
    \* ---- one interrogator call (Spec)
    call,                 \* [control, env] handed to execute
    result,               \* what execute returned, Raised, or NotCalled
    \* ---- ExecutionEngine (SpecEngine)
    pc,                   \* "idle" | "loop" | "done"
    todo,                 \* controls_to_execute not yet run
    controls_executed,    \* len(controls_to_execute)
    results,              \* the results list of ExecutionEngine.execute
    outcomes,             \* history: per selected control, how its check ended
    processed,            \* ResultsProcessor.process(results), or NoReport
    \* ---- CoverageValidator (SpecCov)
    control_files,        \* the controls _load_all_controls reads
    available,            \* what _discover_interrogators returns
    validation_results,   \* self.validation_results
    report,               \* the last report returned, or NoReport
    calls,                \* number of validate_coverage calls so far
    \* ---- InterrogatorMapper (SpecMap)
    interrogators_dir,    \* what parsing the interrogator files yields
    controls_dir,         \* the control files _load_controls reads
    interrogator_registry, \* InterrogatorMapper.available_interrogators
    mapping_report,       \* what analyze_and_map returned, or NoReport
    corrected_controls,   \* files generate_corrected_controls wrote
    modules_dir,          \* the classes of the aws/ modules that import
    interrogators,        \* InterrogatorRegistry.interrogators
    \* ---- ControlDeduplicator (SpecDedup, SpecSim)
    dedup_dir,            \* the control files _load_all_controls reads
    all_controls,         \* self.all_controls
    duplicate_groups,     \* what _find_semantic_duplicates returned last
    conflicts,            \* what _find_conflicts returned last
    dedup_report,         \* what analyze_duplicates returned, or NoReport
    dedup_calls,          \* number of analyze_duplicates calls so far
    compared,             \* the two controls handed to _calculate_similarity
    similarity,           \* the two scores, one per argument order
    \* ---- CSVProcessorV2 (SpecCsv)
    csv_rows,             \* the rows read so far, each with its standard
    unique_controls,      \* self.unique_controls
    control_origins,      \* self.control_origins
    controls_by_service   \* self.controls_by_service

vars == <<call, result, pc, todo, controls_executed, results, outcomes,
          processed, control_files, available, validation_results, report, calls,
          interrogators_dir, controls_dir, interrogator_registry,
          mapping_report, corrected_controls, modules_dir, interrogators,
          dedup_dir, all_controls, duplicate_groups, conflicts, dedup_report,
          dedup_calls, compared, similarity,
          csv_rows, unique_controls, control_origins, controls_by_service>>

callVars == <<call, result>>
engineVars == <<pc, todo, controls_executed, results, outcomes, processed>>
covVars == <<control_files, available, validation_results, report, calls>>
mapVars == <<interrogators_dir, controls_dir, interrogator_registry, mapping_report, corrected_controls, modules_dir, interrogators>>
dedupVars == <<dedup_dir, all_controls, duplicate_groups, conflicts, dedup_report, dedup_calls, compared, similarity>>
csvVars == <<csv_rows, unique_controls, control_origins, controls_by_service>>

(***************************************************************************)
(* Bounds of the model.                                                    *)
(***************************************************************************)
MaxCur == 1        \* current-state violations one check can find
MaxEvents == 2     \* audit-log events one query returns
MaxRunEvents == 1  \* audit-log events one query returns during an engine run
MaxIds == 1        \* control ids one execute request names
MaxFiles == 2      \* control definition files in the validated directory
MaxCalls == 2      \* validate_coverage calls on one validator object

None == "None"
Raised == "Raised"
NoReport == "NoReport"

SeqsUpTo(S, n) == UNION {[1..k -> S] : k \in 0..n}

RECURSIVE SeqSum(_)
SeqSum(s) == IF s = <<>> THEN 0 ELSE Head(s) + SeqSum(Tail(s))

(***************************************************************************)
(* Configuration: aws.organization_accounts and analysis.days_back.        *)
(***************************************************************************)
OrgAccount == "111111111111"
ExtAccount == "999999999999"
OwnAccount == "111111111111"     \* sts get_caller_identity / resource owner
Accounts == {OrgAccount, ExtAccount}

org_accounts == {OrgAccount}

DefaultDaysBack == 30
DaysBackChoices == {7, DefaultDaysBack}
DaysOfMonth == {15, 31}

(***************************************************************************)
(* ViolationDetail.  phase is a history field (which phase appended it);   *)
(* violation_timestamp is None, "utcnow" or the event's "eventTime".       *)
(***************************************************************************)
ViolationDetail(phase, account, ts) ==
    [phase |-> phase, offender_account |-> account, violation_timestamp |-> ts]

InterrogationResult(control_id, violation_type, violations, cur, hist) ==
    [control_id |-> control_id,
     violation_type |-> violation_type,
     violations |-> violations,
     summary |-> [current_violations |-> cur, historical_violations |-> hist]]

(***************************************************************************)
(* The environment of one execute call.                                    *)
(*   cur:   what the resource-description API does during the              *)
(*          CurrentState phase: answers and the check finds n violations   *)
(*          ("ok"), raises the API's specific "not configured" exception,  *)
(*          or raises another error after n violations were found          *)
(*   log:   the audit-log query fails, or returns events                   *)
(*   today: the day of the month of datetime.utcnow()                      *)
(***************************************************************************)
CurOutcomes ==
    {[kind |-> "ok", n |-> n] : n \in 0..MaxCur}
    \cup {[kind |-> "not_configured", n |-> 0]}
    \cup {[kind |-> "error", n |-> n] : n \in 0..MaxCur}

\* A log event: the acting account and the shape of its payload.
Events ==
    {[accountId |-> a, payload |-> p] : a \in Accounts, p \in {"ok", "noEventTime"}}
    \cup {[accountId |-> "Unknown", payload |-> "badjson"]}

LogResponses ==
    {[ok |-> FALSE, events |-> <<>>]}
    \cup {[ok |-> TRUE, events |-> s] : s \in SeqsUpTo(Events, MaxEvents)}

Envs == [cur : CurOutcomes, log : LogResponses, today : DaysOfMonth]

Contexts == [days_back : DaysBackChoices]

(***************************************************************************)
(* Control definitions.  title is the set of keywords the title contains   *)
(* (the code only tests "keyword in title"); a parameter that is absent    *)
(* from the parameter bag is None.                                         *)
(***************************************************************************)
Ctl(id, class, check_type, resource_type, user_type, title, service) ==
    [control_id |-> id, class |-> class, check_type |-> check_type,
     resource_type |-> resource_type, user_type |-> user_type,
     title |-> title, service |-> service, has_params |-> TRUE,
     has_interrogation |-> TRUE, has_id |-> TRUE, ports |-> None, standards |-> {}]

\* a control whose interrogation block has no "parameters" key
NoParams(control) == [control EXCEPT !.has_params = FALSE]
\* a control without an "interrogation" block
NoInterrogation(control) ==
    [control EXCEPT !.has_interrogation = FALSE, !.has_params = FALSE,
                    !.class = None, !.check_type = None]
\* a control record without a "control_id" key
NoId(control) == [control EXCEPT !.has_id = FALSE]
InStandards(control, S) == [control EXCEPT !.standards = S]

Get(v, default) == IF v = None THEN default ELSE v

(***************************************************************************)
(* The CurrentState phase of one check method.  A check method is          *)
(* described by how its body is guarded:                                   *)
(*   catchOuter    the API calls sit in a try with "except Exception"      *)
(*   notConf       what the API's "not configured" exception does:         *)
(*                 "violation" (a specific except clause appends one),     *)
(*                 "ignored" (caught, nothing appended), "error" (it is    *)
(*                 an error like any other)                                *)
(*   appendFails   building the ViolationDetail reads self.aws_config,     *)
(*                 which no interrogator sets: AttributeError              *)
(*   appendCaught  a try around the append catches that                    *)
(*   notConfCaught the "not configured" clause itself sits inside a try    *)
(*   handlerFails  the except clause calls logger, which the module never  *)
(*                 defines: NameError out of the handler                   *)
(*   single        the check can append one violation at most              *)
(*   ts            the violation_timestamp it gives its evidence           *)
(* The phase returns the number of violations appended, or raises.         *)
(***************************************************************************)
Method(catchOuter, notConf, appendFails, appendCaught, notConfCaught, handlerFails, single, ts) ==
    [catchOuter |-> catchOuter, notConf |-> notConf, appendFails |-> appendFails,
     appendCaught |-> appendCaught, notConfCaught |-> notConfCaught,
     handlerFails |-> handlerFails, single |-> single, ts |-> ts]

Guarded == Method(TRUE, "error", FALSE, TRUE, TRUE, FALSE, FALSE, "utcnow")
Unguarded == Method(FALSE, "error", FALSE, FALSE, FALSE, FALSE, FALSE, "utcnow")
\* a check method without a CurrentState body: violations stays []
NoBody == Method(TRUE, "ignored", FALSE, TRUE, TRUE, FALSE, TRUE, "utcnow")

Found(m, n) == IF m.single /\ n > 1 THEN 1 ELSE n

PhaseOk(n) == [raised |-> FALSE, n |-> n]
PhaseRaised == [raised |-> TRUE, n |-> 0]

\* an exception raised inside the try body
OnError(m, kept) ==
    IF m.catchOuter /\ ~m.handlerFails THEN PhaseOk(kept) ELSE PhaseRaised

\* the first append of a method whose append fails
OnAppendFailure(m) ==
    IF m.appendCaught /\ ~m.handlerFails THEN PhaseOk(0) ELSE PhaseRaised

CurrentPhase(m, cur) ==
    LET n == Found(m, cur.n) IN
    CASE m = NoBody -> PhaseOk(0)
      [] cur.kind = "ok" ->
            IF n > 0 /\ m.appendFails THEN OnAppendFailure(m) ELSE PhaseOk(n)
      [] cur.kind = "not_configured" ->
            CASE m.notConf = "violation" ->
                    IF m.appendFails
                    THEN (IF m.notConfCaught THEN PhaseOk(0) ELSE PhaseRaised)
                    ELSE PhaseOk(1)
              [] m.notConf = "ignored" -> PhaseOk(0)
              [] OTHER -> OnError(m, 0)
      [] OTHER ->
            IF n > 0 /\ m.appendFails THEN OnAppendFailure(m)
            ELSE OnError(m, IF m.single THEN 0 ELSE n)

CurrentEvidence(m, n) ==
    [i \in 1..n |-> ViolationDetail("CurrentState", OwnAccount, m.ts)]

(***************************************************************************)
(* The HistoricalEvent phase: BaseInterrogator.check_cloudtrail.           *)
(***************************************************************************)
\* _extract_user_identity: the account id of the acting identity
extract_user_identity(event) == event.accountId

Kept(v) == [raised |-> FALSE, out |-> <<v>>]
Dropped == [raised |-> FALSE, out |-> <<>>]
EventError == [raised |-> TRUE, out |-> <<>>]

\* datetime.strptime(event['eventTime'], ...): KeyError without the field
HistoricalEvidence(event) ==
    IF event.payload = "noEventTime" THEN EventError
    ELSE Kept(ViolationDetail("HistoricalEvent", extract_user_identity(event),
                              "eventTime"))

\* _process_cloudtrail_event of the interrogators that drop events of the
\* organization's own accounts (IAM, service config, compliance monitoring)
ProcessFiltered(event) ==
    IF extract_user_identity(event) \in org_accounts THEN Dropped
    ELSE HistoricalEvidence(event)

\* _process_cloudtrail_event of the interrogators that return a
\* ViolationDetail for every event (network security, resource public
\* access, S3 policy)
ProcessUnfiltered(event) == HistoricalEvidence(event)

FilteringClasses ==
    {"IAMPolicyInterrogator", "ServiceConfigInterrogator",
     "ComplianceMonitoringInterrogator"}
KeepingClasses ==
    {"NetworkSecurityInterrogator", "ResourcePublicAccessInterrogator",
     "S3PolicyInterrogator"}

\* BaseInterrogator._process_cloudtrail_event returns None
process_cloudtrail_event(class, event) ==
    IF class \in FilteringClasses THEN ProcessFiltered(event)
    ELSE IF class \in KeepingClasses THEN ProcessUnfiltered(event)
    ELSE Dropped

\* the event loop: a payload that is no JSON is skipped; any other error
\* leaves the loop through the outer except, keeping what was collected
RECURSIVE ProcessEvents(_, _, _)
ProcessEvents(class, events, violations) ==
    IF events = <<>> THEN violations
    ELSE LET e == Head(events) IN
         IF e.payload = "badjson"
         THEN ProcessEvents(class, Tail(events), violations)
         ELSE LET v == process_cloudtrail_event(class, e) IN
              IF v.raised THEN violations
              ELSE ProcessEvents(class, Tail(events), violations \o v.out)

\* start_time.replace(day=start_time.day - days_back): ValueError unless the
\* new day is a day of the month
WindowOk(today, days_back) == today - days_back >= 1

(***************************************************************************)
(* _build_cloudtrail_filter of each interrogator: "" means no query.       *)
(***************************************************************************)
IAMFilter(control) ==
    CASE control.check_type \in {"password_length", "password_reuse", "password_expiry"}
            -> "UpdateAccountPasswordPolicy"
      [] control.check_type = "mfa_enabled" -> "EnableMFADevice"
      [] control.check_type = "access_key_rotation" -> "CreateAccessKey"
      [] control.check_type = "root_access_keys" -> "CreateAccessKeyRoot"
      [] OTHER -> ""

NetworkFilter(control) ==
    CASE control.check_type = "ingress_rules" -> "AuthorizeSecurityGroupIngress"
      [] control.check_type = "default_sg_rules" -> "AuthorizeSecurityGroupEgress"
      [] control.check_type = "nacl_rules" -> "CreateNetworkAclEntry"
      [] OTHER -> ""

PublicAccessFilter(control) ==
    CASE control.resource_type = "S3Bucket" -> "PutBucketPublicAccessBlock"
      [] control.resource_type = "EBSSnapshot" -> "ModifySnapshotAttribute"
      [] control.resource_type = "RDSInstance" -> "ModifyDBInstance"
      [] OTHER -> ""

ServiceConfigFilter(control) ==
    CASE "security contact" \in control.title -> "PutAlternateContact"
      [] {"iam", "policies"} \subseteq control.title -> "CreatePolicy"
      [] "rds" \in control.title -> "ModifyDBInstance"
      [] OTHER -> "Create*"

ComplianceFilter(control) ==
    IF control.check_type = "aws_config_enabled" THEN "StopConfigurationRecorder"
    ELSE ""

build_cloudtrail_filter(control) ==
    CASE control.class = "IAMPolicyInterrogator" -> IAMFilter(control)
      [] control.class = "NetworkSecurityInterrogator" -> NetworkFilter(control)
      [] control.class = "ResourcePublicAccessInterrogator" -> PublicAccessFilter(control)
      [] control.class = "ServiceConfigInterrogator" -> ServiceConfigFilter(control)
      [] control.class = "ComplianceMonitoringInterrogator" -> ComplianceFilter(control)
      [] control.class = "S3PolicyInterrogator" -> "PutBucketPolicy"
      [] OTHER -> ""

check_cloudtrail(control, context, env) ==
    IF build_cloudtrail_filter(control) = "" THEN <<>>
    ELSE IF ~WindowOk(env.today, context.days_back) THEN <<>>
    ELSE IF ~env.log.ok THEN <<>>
    ELSE ProcessEvents(control.class, env.log.events, <<>>)

(***************************************************************************)
(* What execute hands back to its caller.                                  *)
(***************************************************************************)
Returned(r) == [status |-> "returned", value |-> r]
RaisedResult == [status |-> "raised"]
NotCalledResult == [status |-> "not_called"]

\* violation_type='current' if violations else 'compliant'
Classify(violations) == IF violations # <<>> THEN "current" ELSE "compliant"

\* violation_type='historical' if historical else 'compliant'
ClassifyHistorical(historical) == IF historical # <<>> THEN "historical" ELSE "compliant"

\* the unknown-check-type branch of execute
ErrorResult(control) ==
    [control_id |-> control.control_id, violation_type |-> "error",
     violations |-> <<>>, summary |-> [error |-> "Unknown check type"]]

\* the not-implemented branches of the encryption and logging interrogators
NotImplementedResult(control) ==
    [control_id |-> control.control_id, violation_type |-> "compliant",
     violations |-> <<>>, summary |-> [message |-> "Not implemented"]]

\* a deliberately wrong variant of TwoPhase: the audit log decides the
\* classification first
TwoPhase_HistoricalFirst(control, context, env, m) ==
    LET c == CurrentPhase(m, env.cur) IN
    IF c.raised THEN RaisedResult
    ELSE LET violations == CurrentEvidence(m, c.n)
             historical == check_cloudtrail(control, context, env)
         IN Returned(InterrogationResult(control.control_id,
                                         IF historical # <<>> THEN "historical"
                                         ELSE Classify(violations),
                                         violations \o historical,
                                         Len(violations), Len(historical)))

\* a check method with both phases: violations + historical
TwoPhase(control, context, env, m) ==
    LET c == CurrentPhase(m, env.cur) IN
    IF c.raised THEN RaisedResult
    ELSE LET violations == CurrentEvidence(m, c.n)
             historical == check_cloudtrail(control, context, env)
         IN Returned(InterrogationResult(control.control_id, Classify(violations),
                                         violations \o historical,
                                         Len(violations), Len(historical)))

\* a check method that never calls check_cloudtrail
CurrentOnly(control, env, m) ==
    LET c == CurrentPhase(m, env.cur) IN
    IF c.raised THEN RaisedResult
    ELSE LET violations == CurrentEvidence(m, c.n) IN
         Returned([control_id |-> control.control_id,
                   violation_type |-> Classify(violations),
                   violations |-> violations,
                   summary |-> [current_violations |-> Len(violations)]])

\* _check_cloudtrail_only and the generic branches: the audit log alone
CloudtrailOnly(control, context, env) ==
    LET historical == check_cloudtrail(control, context, env) IN
    Returned(InterrogationResult(control.control_id, ClassifyHistorical(historical),
                                 historical, 0, Len(historical)))

(***************************************************************************)
(* IAMPolicyInterrogator                                                   *)
(***************************************************************************)
IAMCheckTypes ==
    {"password_length", "password_reuse", "password_expiry", "mfa_enabled",
     "access_key_rotation", "root_access_keys"}

IAMMethod(control) ==
    CASE control.check_type \in {"password_length", "password_reuse", "password_expiry"}
            -> Method(FALSE, "violation", FALSE, FALSE, FALSE, FALSE, TRUE, "utcnow")
      [] control.check_type = "mfa_enabled" ->
            IF Get(control.user_type, "all") = "root"
            THEN Method(TRUE, "error", FALSE, TRUE, TRUE, FALSE, TRUE, "utcnow")
            ELSE Method(FALSE, "ignored", FALSE, FALSE, FALSE, FALSE, FALSE, "utcnow")
      [] control.check_type = "access_key_rotation" -> Unguarded
      [] OTHER -> Method(TRUE, "error", FALSE, TRUE, TRUE, FALSE, TRUE, "utcnow")

IAMPolicyInterrogator_execute(control, context, env) ==
    IF ~control.has_params THEN RaisedResult
    ELSE IF control.check_type \in IAMCheckTypes
    THEN TwoPhase(control, context, env, IAMMethod(control))
    ELSE Returned(ErrorResult(control))

(***************************************************************************)
(* NetworkSecurityInterrogator: no check method guards its API calls       *)
(***************************************************************************)
NetworkCheckTypes == {"ingress_rules", "default_sg_rules", "nacl_rules"}

NetworkSecurityInterrogator_execute(control, context, env) ==
    IF ~control.has_params THEN RaisedResult
    ELSE IF control.check_type \in NetworkCheckTypes
    THEN TwoPhase(control, context, env, Unguarded)
    ELSE Returned(ErrorResult(control))

\* the API never reports a violation to a method that tests nothing
Quiet(cur) == [cur EXCEPT !.n = 0]

(***************************************************************************)
(* ResourcePublicAccessInterrogator                                        *)
(***************************************************************************)
PublicAccessRoute(control) ==
    LET ct == Get(control.check_type, "public_access")
        rt == control.resource_type
    IN CASE ct = "s3_public_access" \/ (ct = "public_access" /\ rt = "S3Bucket") -> "s3"
         [] ct = "snapshot_public_access" \/ (ct = "public_access" /\ rt = "EBSSnapshot")
                -> "snapshot"
         [] ct = "rds_public_access" \/ (ct = "public_access" /\ rt = "RDSInstance") -> "rds"
         [] ct = "block_public_access" -> "block"
         [] ct = "publicly_accessible" -> "rds_clusters"
         [] ct = "public_sharing" -> "sharing"
         [] ct = "ingress_rules" -> "ingress"
         [] OTHER -> "unknown"

PublicAccessMethod(control, route) ==
    CASE route = "s3" -> Method(TRUE, "violation", FALSE, TRUE, TRUE, FALSE, FALSE, "utcnow")
      [] route = "block" -> Method(TRUE, "violation", FALSE, TRUE, TRUE, FALSE, TRUE, "utcnow")
      [] route = "ingress" -> Method(TRUE, "error", TRUE, TRUE, TRUE, FALSE, FALSE, "utcnow")
      [] route = "sharing" ->
            IF "documentdb" \in control.title
               \/ {"rds", "snapshot"} \subseteq control.title
               \/ "ebs" \in control.title \/ "ec2" \in control.title
            THEN Guarded ELSE NoBody
      [] OTHER -> Guarded

ResourcePublicAccessInterrogator_execute(control, context, env) ==
    IF ~control.has_params THEN RaisedResult
    ELSE LET route == PublicAccessRoute(control) IN
         IF route = "unknown" THEN Returned(ErrorResult(control))
         ELSE TwoPhase(control, context, env, PublicAccessMethod(control, route))

(***************************************************************************)
(* ServiceConfigInterrogator: _check_general_config routes on the title    *)
(***************************************************************************)
StubsBeforeBeanstalk ==
    {"certificate", "api gateway", "auto scaling", "autoscaling", "cognito", "dms",
     "documentdb", "dynamodb", "ecs", "elasticache"}
StubsBeforeMacie == {"glue", "inspector", "lambda"}
StubsBeforeRds ==
    {"amazon mq", "mq broker", "network firewall", "private ca", "certificate authority"}

ServiceConfigRoute(control) ==
    CASE "security contact" \in control.title -> "security_contact"
      [] {"iam", "policies"} \subseteq control.title -> "iam_policies"
      [] control.title \cap StubsBeforeBeanstalk # {} -> "cloudtrail_only"
      [] "elastic beanstalk" \in control.title -> "elastic_beanstalk"
      [] control.title \cap StubsBeforeMacie # {} -> "cloudtrail_only"
      [] "macie" \in control.title -> "macie"
      [] control.title \cap StubsBeforeRds # {} -> "cloudtrail_only"
      [] "rds" \in control.title -> "rds"
      [] OTHER -> "cloudtrail_only"

ServiceConfigMethod(control, route) ==
    CASE route = "security_contact"
            -> Method(TRUE, "violation", TRUE, TRUE, FALSE, FALSE, TRUE, "utcnow")
      [] route = "iam_policies"
            -> IF "administrative" \in control.title
               THEN Method(FALSE, "error", TRUE, TRUE, FALSE, FALSE, FALSE, "utcnow")
               ELSE NoBody
      [] route = "rds"
            -> IF "minor version" \in control.title
               THEN Method(FALSE, "error", TRUE, FALSE, FALSE, FALSE, FALSE, "utcnow")
               ELSE NoBody
      [] route = "elastic_beanstalk"
            -> Method(TRUE, "error", TRUE, TRUE, FALSE, TRUE, FALSE, "utcnow")
      [] OTHER \* macie
            -> Method(TRUE,
                      IF "should be enabled" \in control.title THEN "violation" ELSE "ignored",
                      TRUE, TRUE, FALSE, TRUE, TRUE, "utcnow")

\* whether the routed method tests anything for this title
ServiceConfigTests(control, route) ==
    CASE route = "elastic_beanstalk" -> "enhanced health" \in control.title
      [] route = "macie" -> "should be enabled" \in control.title
      [] OTHER -> TRUE

ServiceConfigInterrogator_execute(control, context, env) ==
    IF ~control.has_params THEN RaisedResult
    ELSE IF Get(control.check_type, "general") # "general"
    THEN Returned(ErrorResult(control))
    ELSE LET route == ServiceConfigRoute(control) IN
         IF route = "cloudtrail_only" THEN CloudtrailOnly(control, context, env)
         ELSE TwoPhase(control, context,
                       IF ServiceConfigTests(control, route) THEN env
                       ELSE [env EXCEPT !.cur = Quiet(env.cur)],
                       ServiceConfigMethod(control, route))

(***************************************************************************)
(* The interrogators that keep BaseInterrogator's empty log filter         *)
(***************************************************************************)
Untimed(m) == [m EXCEPT !.ts = None]

EncryptionRoute(control) ==
    LET ct == Get(control.check_type, "encryption")
        rt == Get(control.resource_type, "")
    IN CASE ct = "rds_encryption" \/ (ct = "encryption" /\ rt = "RDS") -> "not_implemented"
         [] ct = "s3_encryption" \/ (ct = "encryption" /\ rt = "S3Bucket") -> "not_implemented"
         [] ct = "ebs_encryption" \/ (ct = "encryption" /\ rt = "EBS") -> "ebs"
         [] ct = "https_required" -> "https"
         [] ct = "encryption" ->
                CASE control.title \cap {"firehose", "elasticsearch"} # {} -> "general"
                  [] control.title \cap {"rds", "s3"} # {} -> "not_implemented"
                  [] "ebs" \in control.title -> "ebs"
                  [] OTHER -> "cloudtrail_only"
         [] OTHER -> "not_implemented"

EncryptionConfigInterrogator_execute(control, context, env) ==
    IF ~control.has_params THEN RaisedResult
    ELSE LET route == EncryptionRoute(control) IN
         CASE route = "not_implemented" -> Returned(NotImplementedResult(control))
           [] route = "ebs" ->
                CurrentOnly(control, env,
                            Untimed(Method(TRUE, "error", FALSE, TRUE, TRUE, FALSE, TRUE, "utcnow")))
           [] route = "https" ->
                TwoPhase(control, context, env,
                         IF "s3" \in control.title
                         THEN Method(TRUE, "violation", TRUE, TRUE, TRUE, FALSE, FALSE, "utcnow")
                         ELSE NoBody)
           [] route = "general" ->
                TwoPhase(control, context, env,
                         Method(TRUE, "error", TRUE, TRUE, TRUE, FALSE, FALSE, "utcnow"))
           [] OTHER -> CloudtrailOnly(control, context, env)

LoggingRoute(control) ==
    LET ct == Get(control.check_type, "") IN
    CASE ct = "cloudtrail_logging" -> "cloudtrail"
      [] ct = "vpc_flow_logs" -> "vpc"
      [] ct = "enabled" ->
            CASE "vpc flow" \in control.title -> "vpc"
              [] "cloudtrail" \in control.title -> "cloudtrail"
              [] OTHER -> "cloudtrail_only"
      [] ct \in {"log_validation", "multi_region", "access_logging"} -> "two_phase"
      [] ct = "logging" -> "general"
      [] OTHER -> "not_implemented"

LoggingConfigInterrogator_execute(control, context, env) ==
    IF ~control.has_params THEN RaisedResult
    ELSE LET route == LoggingRoute(control) IN
         CASE route = "not_implemented" -> Returned(NotImplementedResult(control))
           [] route = "cloudtrail" ->
                \* reached with a check_type its body does not test
                CurrentOnly(control, [env EXCEPT !.cur = Quiet(env.cur)], Untimed(Guarded))
           [] route = "vpc" -> CurrentOnly(control, env, Untimed(Guarded))
           [] route = "two_phase" -> TwoPhase(control, context, env, Guarded)
           [] route = "general" ->
                TwoPhase(control, context, env,
                         IF control.title \cap {"elasticsearch", "opensearch", "network firewall"} # {}
                         THEN Method(TRUE, "error", TRUE, TRUE, TRUE, FALSE, FALSE, "utcnow")
                         ELSE NoBody)
           [] OTHER -> CloudtrailOnly(control, context, env)

\* KMSPolicyInterrogator.execute reads no parameter
KMSPolicyInterrogator_execute(control, context, env) ==
    CurrentOnly(control, env, Untimed(Guarded))

S3PolicyInterrogator_execute(control, context, env) ==
    IF ~control.has_params THEN RaisedResult
    ELSE IF control.check_type = "tls_version"
    THEN TwoPhase(control, context, env,
                  Untimed(Method(TRUE, "violation", FALSE, TRUE, TRUE, FALSE, FALSE, "utcnow")))
    ELSE Returned(ErrorResult(control))

ComplianceMonitoringInterrogator_execute(control, context, env) ==
    IF ~control.has_params THEN RaisedResult
    ELSE IF Get(control.check_type, "aws_config_enabled") = "aws_config_enabled"
    THEN TwoPhase(control, context, env,
                  Method(TRUE, "error", TRUE, TRUE, TRUE, FALSE, FALSE, "utcnow"))
    ELSE Returned(ErrorResult(control))

Interrogators ==
    {"IAMPolicyInterrogator", "NetworkSecurityInterrogator",
     "ResourcePublicAccessInterrogator", "ServiceConfigInterrogator",
     "EncryptionConfigInterrogator", "LoggingConfigInterrogator",
     "KMSPolicyInterrogator", "S3PolicyInterrogator",
     "ComplianceMonitoringInterrogator"}

\* interrogator.execute(control, context) of the control's class
Execute(control, context, env) ==
    CASE control.class = "IAMPolicyInterrogator"
            -> IAMPolicyInterrogator_execute(control, context, env)
      [] control.class = "NetworkSecurityInterrogator"
            -> NetworkSecurityInterrogator_execute(control, context, env)
      [] control.class = "ResourcePublicAccessInterrogator"
            -> ResourcePublicAccessInterrogator_execute(control, context, env)
      [] control.class = "ServiceConfigInterrogator"
            -> ServiceConfigInterrogator_execute(control, context, env)
      [] control.class = "EncryptionConfigInterrogator"
            -> EncryptionConfigInterrogator_execute(control, context, env)
      [] control.class = "LoggingConfigInterrogator"
            -> LoggingConfigInterrogator_execute(control, context, env)
      [] control.class = "KMSPolicyInterrogator"
            -> KMSPolicyInterrogator_execute(control, context, env)
      [] control.class = "S3PolicyInterrogator"
            -> S3PolicyInterrogator_execute(control, context, env)
      [] OTHER -> ComplianceMonitoringInterrogator_execute(control, context, env)

(***************************************************************************)
(* Control definitions handed to the interrogators: one per route of every *)
(* execute.                                                                *)
(***************************************************************************)
IAMControls ==
    {Ctl("iam-1", "IAMPolicyInterrogator", ct, None, None, {}, "iam") :
        ct \in {"password_length", "mfa_enabled", "access_key_rotation",
                "root_access_keys", "no_such_check", None}}
    \cup {Ctl("iam-2", "IAMPolicyInterrogator", "mfa_enabled", None, "root", {}, "iam"),
          NoParams(Ctl("iam-3", "IAMPolicyInterrogator", None, None, None, {}, "iam"))}

NetworkControls ==
    {Ctl("net-1", "NetworkSecurityInterrogator", ct, None, None, {}, "ec2") :
        ct \in {"ingress_rules", "default_sg_rules", "security_group_ingress"}}

PublicAccessControls ==
    {Ctl("pub-1", "ResourcePublicAccessInterrogator", None, rt, None, {}, "s3") :
        rt \in {"S3Bucket", "RDSInstance", None}}
    \cup {Ctl("pub-2", "ResourcePublicAccessInterrogator", ct, None, None, {}, "s3") :
            ct \in {"s3_public_access", "ingress_rules"}}
    \cup {Ctl("pub-3", "ResourcePublicAccessInterrogator", "block_public_access",
              "S3Bucket", None, {}, "s3"),
          Ctl("pub-4", "ResourcePublicAccessInterrogator", "public_sharing",
              "EBSSnapshot", None, {"ssm"}, "ssm")}

ServiceConfigControls ==
    {Ctl("svc-1", "ServiceConfigInterrogator", None, None, None, t, "config") :
        t \in {{"certificate"}, {"security contact"}, {"rds", "minor version"},
               {"elastic beanstalk", "enhanced health"}, {"macie", "should be enabled"},
               {"iam", "policies"}}}
    \cup {Ctl("svc-2", "ServiceConfigInterrogator", "tagging", None, None, {}, "config")}

OtherControls ==
    {Ctl("enc-1", "EncryptionConfigInterrogator", ct, None, None, {"s3"}, "s3") :
        ct \in {"ebs_encryption", "https_required", None, "kms"}}
    \cup {Ctl("log-1", "LoggingConfigInterrogator", ct, None, None, {}, "logs") :
            ct \in {"vpc_flow_logs", "enabled", "multi_region", None}}
    \cup {Ctl("kms-1", "KMSPolicyInterrogator", None, None, None, {}, "kms"),
          Ctl("s3p-1", "S3PolicyInterrogator", "tls_version", None, None, {}, "s3"),
          Ctl("s3p-2", "S3PolicyInterrogator", None, None, None, {}, "s3"),
          Ctl("cmp-1", "ComplianceMonitoringInterrogator", "aws_config_enabled",
              None, None, {}, "config"),
          Ctl("cmp-2", "ComplianceMonitoringInterrogator", None, None, None, {}, "config")}

CheckerControls ==
    IAMControls \cup NetworkControls \cup PublicAccessControls
    \cup ServiceConfigControls \cup OtherControls

(***************************************************************************)
(* Idle values of the components a specification does not exercise.        *)
(***************************************************************************)
NoCall == [control |-> Ctl("none", "none", None, None, None, {}, "none"),
           context |-> [days_back |-> DefaultDaysBack],
           env |-> [cur |-> [kind |-> "ok", n |-> 0],
                    log |-> [ok |-> TRUE, events |-> <<>>], today |-> 31]]

CallIdle == call = NoCall /\ result = NotCalledResult

EngineIdle ==
    /\ pc = "idle" /\ todo = <<>> /\ controls_executed = 0
    /\ results = <<>> /\ outcomes = <<>> /\ processed = [status |-> NoReport]

CovIdle ==
    /\ control_files = <<>> /\ available = <<>>
    /\ validation_results = [valid |-> <<>>, invalid |-> <<>>, warnings |-> <<>>]
    /\ report = [status |-> NoReport] /\ calls = 0

MapIdle ==
    /\ interrogators_dir = <<>> /\ controls_dir = <<>>
    /\ interrogator_registry = <<>>
    /\ mapping_report = [status |-> NoReport]
    /\ corrected_controls = [status |-> NoReport]
    /\ modules_dir = {} /\ interrogators = <<>>

NoPair == <<>>

DedupIdle ==
    /\ dedup_dir = <<>> /\ all_controls = <<>>
    /\ duplicate_groups = <<>> /\ conflicts = <<>>
    /\ dedup_report = [status |-> NoReport] /\ dedup_calls = 0
    /\ compared = NoPair /\ similarity = NoPair

CsvIdle ==
    /\ csv_rows = <<>> /\ unique_controls = <<>>
    /\ control_origins = <<>> /\ controls_by_service = <<>>

(***************************************************************************)
(* Spec: one call of execute.                                              *)
(***************************************************************************)
Init ==
    /\ CsvIdle
    /\ call \in [control : CheckerControls, context : Contexts, env : Envs]
    /\ result = NotCalledResult
    /\ EngineIdle
    /\ CovIdle
    /\ MapIdle
    /\ DedupIdle

\* one call of <Interrogator>.execute(control, context)
Invoke ==
    /\ result = NotCalledResult
    /\ result' = Execute(call.control, call.context, call.env)
    /\ UNCHANGED <<call, engineVars, covVars, mapVars, dedupVars, csvVars>>

Next == Invoke

Spec == Init /\ [][Next]_vars

(***************************************************************************)
(* SpecEngine: ExecutionEngine.execute and ResultsProcessor.process.       *)
(***************************************************************************)

\* ControlLoader.controls after load_controls, in insertion order
LoadedControls ==
    << InStandards(Ctl("iam-pw", "IAMPolicyInterrogator", "password_length",
                       None, None, {}, "iam"), {<<"cis", "v3", "0">>}),
       InStandards(Ctl("net-sg", "NetworkSecurityInterrogator", "default_sg_rules",
                       None, None, {}, "ec2"), {<<"cis", "v3", "0">>, <<"nist">>}),
       Ctl("iam-x", "IAMPolicyInterrogator", "no_such_check", None, None, {}, "iam"),
       InStandards(Ctl("cust-1", "CustomInterrogator", "anything",
                       None, None, {}, "ec2"), {<<"cis", "v3", "0">>}),
       Ctl("acm-1", "ServiceConfigInterrogator", None, None, None,
           {"certificate"}, "acm"),
       InStandards(NoInterrogation(Ctl("doc-1", None, None, None, None, {}, "iam")),
                   {<<"nist">>}) >>

ControlIds == {LoadedControls[i].control_id : i \in DOMAIN LoadedControls}

\* ControlLoader.get_control; only called for ids that are loaded
get_control(cid) ==
    LoadedControls[CHOOSE i \in DOMAIN LoadedControls :
                       LoadedControls[i].control_id = cid]

\* A standard name is the sequence of its parts between underscores.
\* execute splits off the first part and joins the rest as the version;
\* get_controls_by_standard joins the two again unless the version is empty.
get_controls_by_standard(standard) ==
    LET name == Head(standard)
        version == Tail(standard)
        standard_key == IF version # <<>> /\ version # <<"">>
                        THEN <<name>> \o version ELSE <<name>>
    IN SelectSeq(LoadedControls, LAMBDA c : standard_key \in c.standards)

RECURSIVE ControlsByIds(_)
ControlsByIds(ids) ==
    IF ids = <<>> THEN <<>>
    ELSE (IF Head(ids) \in ControlIds THEN <<get_control(Head(ids))>> ELSE <<>>)
         \o ControlsByIds(Tail(ids))

\* An execute request; an argument left out (None or empty) is <<>> or {}.
Requests ==
    [control_ids : SeqsUpTo(ControlIds \cup {"no-such-control"}, MaxIds),
     standard : {<<>>, <<"cis", "v3", "0">>, <<"nist">>, <<"cis", "">>, <<"pci">>},
     services : {{}, {"iam"}, {"iam", "ec2"}, {"rds"}}]

\* the controls execute selects for a request
ControlsToExecute(request) ==
    LET selected == IF request.control_ids # <<>>
                    THEN ControlsByIds(request.control_ids)
                    ELSE IF request.standard # <<>>
                    THEN get_controls_by_standard(request.standard)
                    ELSE LoadedControls
    IN IF request.services # {}
       THEN SelectSeq(selected, LAMBDA c : c.service \in request.services)
       ELSE selected

\* self.context of the engine: days_back left at its default
EngineContext == [days_back |-> DefaultDaysBack]

RunEnvs ==
    [cur : CurOutcomes,
     log : {[ok |-> FALSE, events |-> <<>>]}
           \cup {[ok |-> TRUE, events |-> s] : s \in SeqsUpTo(Events, MaxRunEvents)},
     today : DaysOfMonth]

ViolationDetail_to_dict(v) ==
    IF v.violation_timestamp = None
    THEN [account |-> v.offender_account]
    ELSE [account |-> v.offender_account, timestamp |-> v.violation_timestamp]

InterrogationResult_to_dict(r) ==
    [control_id |-> r.control_id,
     violation_type |-> r.violation_type,
     violations |-> [i \in DOMAIN r.violations |-> ViolationDetail_to_dict(r.violations[i])],
     summary |-> r.summary]

\* ExecutionEngine._execute_control
execute_control(control, env) ==
    IF ~control.has_interrogation \/ control.class = None THEN RaisedResult
    ELSE IF control.class \notin Interrogators THEN RaisedResult
    ELSE LET r == Execute(control, EngineContext, env) IN
         IF r = RaisedResult THEN RaisedResult
         ELSE Returned([control |-> control,
                        result |-> InterrogationResult_to_dict(r.value)])

\* ResultsProcessor.process; compliance_percentage is the exact quotient
\* num / den of compliant_controls * 100 and total_controls
process(rs) ==
    LET total_controls == Len(rs)
        with == {i \in DOMAIN rs : rs[i].result.violations # <<>>}
        compliant_controls == total_controls - Cardinality(with)
        services == {rs[i].control.service : i \in DOMAIN rs}
        service_results(s) == SelectSeq(rs, LAMBDA r : r.control.service = s)
        Sizes(xs) == [i \in DOMAIN xs |-> Len(xs[i].result.violations)]
        Clean(xs) == Cardinality({i \in DOMAIN xs : xs[i].result.violations = <<>>})
    IN [status |-> "returned",
        statistics |->
            [total_controls_checked |-> total_controls,
             compliant_controls |-> compliant_controls,
             controls_with_violations |-> Cardinality(with),
             total_violations |-> SeqSum(Sizes(rs)),
             compliance_percentage |->
                 IF total_controls > 0
                 THEN [num |-> compliant_controls * 100, den |-> total_controls]
                 ELSE [num |-> 0, den |-> 1]],
        by_service |->
            [s \in services |->
                [total_controls |-> Len(service_results(s)),
                 compliant |-> Clean(service_results(s)),
                 violations |-> SeqSum(Sizes(service_results(s))),
                 details |-> service_results(s)]],
        raw_results |-> rs]

InitEngine ==
    /\ CsvIdle
    /\ CallIdle
    /\ EngineIdle
    /\ CovIdle
    /\ MapIdle
    /\ DedupIdle

\* execute, up to the loop: the controls to execute are determined
StartExecute ==
    /\ pc = "idle"
    /\ \E request \in Requests :
          /\ todo' = ControlsToExecute(request)
          /\ controls_executed' = Len(ControlsToExecute(request))
    /\ pc' = "executing"
    /\ results' = <<>>
    /\ outcomes' = <<>>
    /\ UNCHANGED <<processed, callVars, covVars, mapVars, dedupVars, csvVars>>

\* one turn of the loop of execute: a result is appended, or the error of
\* the control is logged and nothing is appended
ExecuteNextControl ==
    /\ pc = "executing"
    /\ todo # <<>>
    /\ \E env \in RunEnvs :
          LET control == Head(todo)
              r == execute_control(control, env)
          IN /\ results' = IF r = RaisedResult THEN results
                           ELSE Append(results, r.value)
             /\ outcomes' = Append(outcomes,
                                   [control_id |-> control.control_id,
                                    raised |-> r = RaisedResult])
    /\ todo' = Tail(todo)
    /\ UNCHANGED <<pc, controls_executed, processed, callVars, covVars, mapVars, dedupVars, csvVars>>

\* execute, after the loop: the results are processed and returned
FinishExecute ==
    /\ pc = "executing"
    /\ todo = <<>>
    /\ processed' = process(results)
    /\ pc' = "done"
    /\ UNCHANGED <<todo, controls_executed, results, outcomes, callVars, covVars, mapVars, dedupVars, csvVars>>

NextEngine ==
    \/ StartExecute
    \/ ExecuteNextControl
    \/ FinishExecute

SpecEngine == InitEngine /\ [][NextEngine]_vars

(***************************************************************************)
(* SpecCov: CoverageValidator.validate_coverage, called repeatedly on one  *)
(* validator object over an unchanged directory.                           *)
(***************************************************************************)

\* the _check_* methods of each interrogator class, without the prefix
CheckMethods(class) ==
    CASE class = "IAMPolicyInterrogator" ->
            {"access_key_rotation", "mfa_enabled", "password_expiry",
             "password_length", "password_reuse", "root_access_keys"}
      [] class = "NetworkSecurityInterrogator" ->
            {"default_security_groups", "nacl_rules", "security_group_ingress"}
      [] class = "ResourcePublicAccessInterrogator" ->
            {"rds_public_access", "rds_publicly_accessible", "resource_public_sharing",
             "s3_block_public_access", "s3_public_access", "security_group_ingress",
             "snapshot_public_access"}
      [] class = "ServiceConfigInterrogator" ->
            {"api_gateway", "autoscaling", "certificates", "cloudtrail_only", "cognito",
             "dms", "documentdb", "dynamodb", "ecs", "elastic_beanstalk", "elasticache",
             "general_config", "glue", "iam_policies", "inspector", "lambda", "macie",
             "mq", "network_firewall", "private_ca", "rds", "s3", "security_contact",
             "transfer_family", "workspaces"}
      [] class = "EncryptionConfigInterrogator" ->
            {"ebs_encryption", "general_encryption", "https_required",
             "rds_encryption", "s3_encryption"}
      [] class = "LoggingConfigInterrogator" ->
            {"access_logging", "cloudtrail_logging", "general_logging", "log_validation",
             "logging_enabled", "multi_region", "vpc_flow_logs"}
      [] class = "KMSPolicyInterrogator" -> {"org_restriction"}
      [] class = "S3PolicyInterrogator" -> {"tls_version"}
      [] OTHER -> {"aws_config_enabled"}

\* the literals each module compares check_type with (check_type == '...')
CheckLiterals(class) ==
    CASE class = "IAMPolicyInterrogator" ->
            {"access_key_rotation", "mfa_enabled", "password_expiry",
             "password_length", "password_reuse", "root_access_keys"}
      [] class = "NetworkSecurityInterrogator" ->
            {"default_sg_rules", "ingress_rules", "nacl_rules"}
      [] class = "ResourcePublicAccessInterrogator" ->
            {"block_public_access", "ingress_rules", "public_access", "public_sharing",
             "publicly_accessible", "rds_public_access", "s3_public_access",
             "snapshot_public_access"}
      [] class = "ServiceConfigInterrogator" -> {"general"}
      [] class = "EncryptionConfigInterrogator" ->
            {"ebs_encryption", "encryption", "https_required", "rds_encryption",
             "s3_encryption"}
      [] class = "LoggingConfigInterrogator" ->
            {"access_logging", "cloudtrail_logging", "enabled", "log_validation",
             "logging", "multi_region", "vpc_flow_logs"}
      [] class = "KMSPolicyInterrogator" -> {}
      [] class = "S3PolicyInterrogator" -> {"tls_version"}
      [] OTHER -> {"aws_config_enabled"}

\* _discover_interrogators: the registry is imported and every class
\* instantiated, or the fallback parses the files, or nothing is found
DynamicDiscovery == [class \in Interrogators |-> CheckMethods(class)]
StaticDiscovery ==
    [class \in Interrogators |-> CheckLiterals(class) \cup CheckMethods(class)]
NothingDiscovered == [class \in {} |-> {}]
Discoveries == {DynamicDiscovery, StaticDiscovery, NothingDiscovered}

\* control records found in the definition files
ValidatedControls ==
    {NoInterrogation(Ctl("v-nospec", None, None, None, None, {}, "iam")),
     Ctl("v-noclass", None, "password_length", None, None, {}, "iam"),
     Ctl("v-custom", "CustomInterrogator", "anything", None, None, {}, "ec2"),
     Ctl("v-iam", "IAMPolicyInterrogator", "password_length", None, None, {}, "iam"),
     Ctl("v-iam-x", "IAMPolicyInterrogator", "no_such_check", None, None, {}, "iam"),
     Ctl("v-iam-0", "IAMPolicyInterrogator", None, None, None, {}, "iam"),
     Ctl("v-pub", "ResourcePublicAccessInterrogator", "s3_public_access",
         "S3Bucket", None, {}, "s3"),
     Ctl("v-pub-w", "ResourcePublicAccessInterrogator", "s3_public_access",
         None, None, {}, "s3"),
     Ctl("v-net-w", "NetworkSecurityInterrogator", "ingress_rules",
         None, None, {}, "ec2"),
     [Ctl("v-net", "NetworkSecurityInterrogator", "ingress_rules",
          None, None, {}, "ec2") EXCEPT !.ports = "given"],
     NoId(Ctl("v-noid", "IAMPolicyInterrogator", "password_length",
              None, None, {}, "iam"))}

\* a file json.load fails on, and a file holding a "controls" list
UnreadableFile == [readable |-> FALSE, controls |-> <<>>]
ControlFile(controls) == [readable |-> TRUE, controls |-> controls]
Files ==
    {UnreadableFile} \cup {ControlFile(s) : s \in SeqsUpTo(ValidatedControls, 1)}
Directories == SeqsUpTo(Files, MaxFiles)

FileError == [type |-> "file_error"]

\* _load_all_controls: the controls of the readable files, and one
\* file_error warning per unreadable file
RECURSIVE load_all_controls(_)
load_all_controls(files) ==
    IF files = <<>> THEN [controls |-> <<>>, warnings |-> <<>>]
    ELSE LET rest == load_all_controls(Tail(files)) IN
         IF Head(files).readable
         THEN [controls |-> Head(files).controls \o rest.controls,
               warnings |-> rest.warnings]
         ELSE [controls |-> rest.controls,
               warnings |-> <<FileError>> \o rest.warnings]

\* parameters.get('check_type', '')
DeclaredCheckType(control) ==
    IF control.has_params THEN Get(control.check_type, "") ELSE ""

\* the reasons are the message templates of the code
MissingInterrogation == "Missing interrogation configuration"
NoClassSpecified == "No interrogator class specified"
InterrogatorNotFound == "Interrogator {class} not found"
CheckTypeNotFound == "Check type {check_type} not found in {class}"

\* 'not found' in reason
ContainsNotFound(reason) == reason \in {InterrogatorNotFound, CheckTypeNotFound}

Passed == [failed |-> FALSE]
Failed(entry) == [failed |-> TRUE, entry |-> entry]

\* a deliberately wrong variant of InvalidEntry: the registry is consulted
\* before the class is known to be given
InvalidEntry_RegistryFirst(control, available_interrogators) ==
    IF ~control.has_interrogation
    THEN Failed([control_id |-> control.control_id, reason |-> MissingInterrogation,
                 severity |-> "critical"])
    ELSE IF control.class \notin DOMAIN available_interrogators
    THEN Failed([control_id |-> control.control_id, reason |-> InterrogatorNotFound,
                 severity |-> "critical", interrogator |-> control.class])
    ELSE IF DeclaredCheckType(control) # ""
            /\ DeclaredCheckType(control) \notin available_interrogators[control.class]
    THEN Failed([control_id |-> control.control_id, reason |-> CheckTypeNotFound,
                 severity |-> "high", interrogator |-> control.class,
                 check_type |-> DeclaredCheckType(control),
                 available_check_types |-> available_interrogators[control.class]])
    ELSE Passed

\* _validate_control, the required fields: the entry appended to 'invalid'
InvalidEntry(control, available_interrogators) ==
    IF ~control.has_interrogation
    THEN Failed([control_id |-> control.control_id, reason |-> MissingInterrogation,
                 severity |-> "critical"])
    ELSE IF control.class = None
    THEN Failed([control_id |-> control.control_id, reason |-> NoClassSpecified,
                 severity |-> "critical"])
    ELSE IF control.class \notin DOMAIN available_interrogators
    THEN Failed([control_id |-> control.control_id, reason |-> InterrogatorNotFound,
                 severity |-> "critical", interrogator |-> control.class])
    ELSE IF DeclaredCheckType(control) # ""
            /\ DeclaredCheckType(control) \notin available_interrogators[control.class]
    THEN Failed([control_id |-> control.control_id, reason |-> CheckTypeNotFound,
                 severity |-> "high", interrogator |-> control.class,
                 check_type |-> DeclaredCheckType(control),
                 available_check_types |-> available_interrogators[control.class]])
    ELSE Passed

MissingParameter(control, parameter, severity) ==
    [control_id |-> control.control_id, type |-> "missing_parameter",
     parameter |-> parameter, severity |-> severity]

\* _validate_parameters; of the class names only
\* ResourcePublicAccessInterrogator contains 'Public' and only
\* NetworkSecurityInterrogator contains 'Network'
validate_parameters(control, interrogator_class, check_type) ==
    (IF interrogator_class = "ResourcePublicAccessInterrogator"
        /\ (~control.has_params \/ control.resource_type = None)
     THEN <<MissingParameter(control, "resource_type", "medium")>> ELSE <<>>)
    \o
    (IF interrogator_class = "NetworkSecurityInterrogator"
        /\ check_type = "ingress_rules" /\ control.ports = None
     THEN <<MissingParameter(control, "ports", "low")>> ELSE <<>>)

\* _validate_control on self.validation_results = vr; raises KeyError on a
\* record without control_id
validate_control(control, available_interrogators, vr) ==
    IF ~control.has_id THEN [raised |-> TRUE, vr |-> vr]
    ELSE LET checked == InvalidEntry(control, available_interrogators)
             validation_warnings ==
                 validate_parameters(control, control.class, DeclaredCheckType(control))
         IN [raised |-> FALSE,
             vr |-> IF checked.failed
                    THEN [vr EXCEPT !.invalid = Append(@, checked.entry)]
                    ELSE IF validation_warnings # <<>>
                    THEN [vr EXCEPT !.warnings = @ \o validation_warnings]
                    ELSE [vr EXCEPT !.valid =
                             Append(@, [control_id |-> control.control_id,
                                        interrogator |-> control.class,
                                        check_type |-> DeclaredCheckType(control)])]]

\* the loop of validate_coverage; an exception ends it
RECURSIVE ValidateEach(_, _, _)
ValidateEach(controls, available_interrogators, vr) ==
    IF controls = <<>> THEN [raised |-> FALSE, vr |-> vr]
    ELSE LET v == validate_control(Head(controls), available_interrogators, vr) IN
         IF v.raised THEN v
         ELSE ValidateEach(Tail(controls), available_interrogators, v.vr)

\* round(valid / total * 100, 2) in hundredths of a percent, 0 without controls
coverage_percentage(valid_controls, total_controls) ==
    IF total_controls > 0
    THEN (valid_controls * 10000 * 2 + total_controls) \div (2 * total_controls)
    ELSE 0

Named(entries) ==
    SelectSeq(entries, LAMBDA e : "interrogator" \in DOMAIN e)

\* _find_missing_interrogators; the sorted list of a set is the set
find_missing_interrogators(vr) ==
    {Named(vr.invalid)[i].interrogator :
        i \in {j \in DOMAIN Named(vr.invalid) :
                  ContainsNotFound(Named(vr.invalid)[j].reason)}}

\* _calculate_interrogator_usage
calculate_interrogator_usage(vr) ==
    LET used == vr.valid \o Named(vr.invalid)
    IN [class \in {used[i].interrogator : i \in DOMAIN used} |->
            Cardinality({i \in DOMAIN used : used[i].interrogator = class})]

\* _generate_report
generate_report(controls, available_interrogators, vr) ==
    [status |-> "returned",
     summary |->
        [total_controls |-> Len(controls),
         valid_controls |-> Len(vr.valid),
         invalid_controls |-> Len(vr.invalid),
         warnings |-> Len(vr.warnings),
         coverage_percentage |-> coverage_percentage(Len(vr.valid), Len(controls)),
         available_interrogators |-> Cardinality(DOMAIN available_interrogators)],
     invalid_controls |-> vr.invalid,
     warnings |-> vr.warnings,
     invalid_by_reason |->
        [reason \in {vr.invalid[i].reason : i \in DOMAIN vr.invalid} |->
            SelectSeq(vr.invalid, LAMBDA e : e.reason = reason)],
     missing_interrogators |-> find_missing_interrogators(vr),
     interrogator_usage |-> calculate_interrogator_usage(vr)]

InitCov ==
    /\ CsvIdle
    /\ CallIdle
    /\ EngineIdle
    /\ control_files \in Directories
    /\ available \in Discoveries
    /\ validation_results = [valid |-> <<>>, invalid |-> <<>>, warnings |-> <<>>]
    /\ report = [status |-> NoReport]
    /\ calls = 0
    /\ MapIdle
    /\ DedupIdle

\* one call of validate_coverage
ValidateCoverage ==
    /\ calls < MaxCalls
    /\ LET loaded == load_all_controls(control_files)
           v == ValidateEach(loaded.controls, available,
                             [validation_results EXCEPT !.warnings = @ \o loaded.warnings])
       IN /\ validation_results' = v.vr
          /\ report' = IF v.raised THEN [status |-> Raised]
                       ELSE generate_report(loaded.controls, available, v.vr)
    /\ calls' = calls + 1
    /\ UNCHANGED <<control_files, available, callVars, engineVars, mapVars, dedupVars, csvVars>>

NextCov == ValidateCoverage

SpecCov == InitCov /\ [][NextCov]_vars

(***************************************************************************)
(* InterrogatorMapper (src/mapping_engine/mappers/interrogator_mapper.py). *)
(* A title or description is the set of pattern-table keywords that occur  *)
(* in its lower-cased text.                                                *)
(***************************************************************************)
MaxMapControls == 2     \* controls in the mapper's control directory

\* the functions of each interrogator class body, in source order
MethodNames(class) ==
    CASE class = "IAMPolicyInterrogator" ->
            <<"_init_clients", "get_required_permissions", "execute",
              "_check_password_length", "_check_mfa_enabled",
              "_check_access_key_rotation", "_check_root_access_keys",
              "_check_password_reuse", "_check_password_expiry",
              "_build_cloudtrail_filter", "_process_cloudtrail_event">>
      [] class = "NetworkSecurityInterrogator" ->
            <<"_init_clients", "get_required_permissions", "execute",
              "_check_security_group_ingress", "_check_default_security_groups",
              "_check_nacl_rules", "_build_cloudtrail_filter", "_process_cloudtrail_event">>
      [] class = "ResourcePublicAccessInterrogator" ->
            <<"_init_clients", "get_required_permissions", "execute",
              "_check_s3_block_public_access", "_check_rds_publicly_accessible",
              "_check_resource_public_sharing", "_check_security_group_ingress",
              "_check_s3_public_access", "_check_rds_public_access",
              "_check_snapshot_public_access", "_build_cloudtrail_filter",
              "_process_cloudtrail_event">>
      [] class = "ServiceConfigInterrogator" ->
            <<"_init_clients", "get_required_permissions", "execute",
              "_check_general_config", "_check_security_contact", "_check_iam_policies",
              "_is_overly_permissive_policy", "_check_rds", "_check_elastic_beanstalk",
              "_check_macie", "_check_cloudtrail_only", "_check_certificates",
              "_check_api_gateway", "_check_autoscaling", "_check_cognito", "_check_dms",
              "_check_documentdb", "_check_dynamodb", "_check_ecs", "_check_elasticache",
              "_check_glue", "_check_inspector", "_check_lambda", "_check_mq",
              "_check_network_firewall", "_check_private_ca", "_check_s3",
              "_check_transfer_family", "_check_workspaces", "_build_cloudtrail_filter",
              "_process_cloudtrail_event">>
      [] class = "EncryptionConfigInterrogator" ->
            <<"get_required_permissions", "_init_clients", "execute",
              "_check_ebs_encryption", "_check_s3_encryption", "_check_rds_encryption",
              "_check_https_required", "_check_general_encryption">>
      [] class = "LoggingConfigInterrogator" ->
            <<"get_required_permissions", "_init_clients", "execute",
              "_check_cloudtrail_logging", "_check_logging_enabled",
              "_check_log_validation", "_check_multi_region", "_check_access_logging",
              "_check_general_logging", "_check_vpc_flow_logs">>
      [] class = "KMSPolicyInterrogator" ->
            <<"_init_clients", "get_required_permissions", "execute",
              "_check_org_restriction", "_policy_allows_external_access">>
      [] class = "S3PolicyInterrogator" ->
            <<"_init_clients", "get_required_permissions", "execute",
              "_check_tls_version", "_build_cloudtrail_filter",
              "_process_cloudtrail_event">>
      [] OTHER ->
            <<"_init_clients", "get_required_permissions", "execute",
              "_check_aws_config_enabled", "_build_cloudtrail_filter",
              "_process_cloudtrail_event">>

\* what _discover_interrogators appends to info['check_types']: the _check_*
\* names without the prefix, in body order, then the literals execute
\* compares check_type with, one per comparison
CheckTypeList(class) ==
    CASE class = "IAMPolicyInterrogator" ->
            <<"password_length", "mfa_enabled", "access_key_rotation", "root_access_keys",
              "password_reuse", "password_expiry", "password_length", "password_reuse",
              "password_expiry", "mfa_enabled", "access_key_rotation", "root_access_keys">>
      [] class = "NetworkSecurityInterrogator" ->
            <<"security_group_ingress", "default_security_groups", "nacl_rules",
              "ingress_rules", "default_sg_rules", "nacl_rules">>
      [] class = "ResourcePublicAccessInterrogator" ->
            <<"s3_block_public_access", "rds_publicly_accessible",
              "resource_public_sharing", "security_group_ingress", "s3_public_access",
              "rds_public_access", "snapshot_public_access", "s3_public_access",
              "public_access", "snapshot_public_access", "public_access",
              "rds_public_access", "block_public_access", "public_access",
              "publicly_accessible", "public_sharing", "ingress_rules">>
      [] class = "ServiceConfigInterrogator" ->
            <<"general_config", "security_contact", "iam_policies", "rds",
              "elastic_beanstalk", "macie", "cloudtrail_only", "certificates",
              "api_gateway", "autoscaling", "cognito", "dms", "documentdb", "dynamodb",
              "ecs", "elasticache", "glue", "inspector", "lambda", "mq",
              "network_firewall", "private_ca", "s3", "transfer_family", "workspaces",
              "general">>
      [] class = "EncryptionConfigInterrogator" ->
            <<"ebs_encryption", "s3_encryption", "rds_encryption", "https_required",
              "general_encryption", "rds_encryption", "encryption", "s3_encryption",
              "encryption", "ebs_encryption", "https_required", "encryption", "encryption">>
      [] class = "LoggingConfigInterrogator" ->
            <<"cloudtrail_logging", "logging_enabled", "log_validation", "multi_region",
              "access_logging", "general_logging", "vpc_flow_logs", "cloudtrail_logging",
              "vpc_flow_logs", "enabled", "log_validation", "multi_region",
              "access_logging", "logging">>
      [] class = "KMSPolicyInterrogator" ->
            <<"org_restriction">>
      [] class = "S3PolicyInterrogator" ->
            <<"tls_version", "tls_version">>
      [] OTHER ->
            <<"aws_config_enabled", "aws_config_enabled">>

\* the elements of a list
ToSet(s) == {s[i] : i \in DOMAIN s}

\* the interrogator_info that _discover_interrogators builds for one ClassDef:
\* a fresh record per class and per run
interrogator_info(class) ==
    [methods |-> MethodNames(class), check_types |-> CheckTypeList(class)]

\* what parsing the interrogator files yields: every class of every file
\* that parses, keyed by class name
MapperDiscovery == [class \in Interrogators |-> interrogator_info(class)]
\* the same directory with one file that does not parse: the error is printed
\* and the file's class is left out
WithoutFile(class) ==
    [c \in Interrogators \ {class} |-> MapperDiscovery[c]]
OnlyFile(class) == [c \in {class} |-> MapperDiscovery[c]]
InterrogatorDirs ==
    {MapperDiscovery, NothingDiscovered, WithoutFile("IAMPolicyInterrogator"),
     OnlyFile("IAMPolicyInterrogator")}

\* a deliberately wrong variant of discover_interrogators: a class that is
\* already registered has the new lists appended to the ones it holds
discover_interrogators_Extending(registry, parsed) ==
    [class \in DOMAIN parsed \cup DOMAIN registry |->
        IF class \notin DOMAIN parsed THEN registry[class]
        ELSE IF class \notin DOMAIN registry THEN parsed[class]
        ELSE [methods |-> registry[class].methods \o parsed[class].methods,
              check_types |-> registry[class].check_types \o parsed[class].check_types]]

\* _discover_interrogators: available_interrogators[node.name] is assigned
\* the info of this run; the entries of other classes stay
discover_interrogators(registry, parsed) == parsed @@ registry

\* _summarize_interrogators: the 'available_interrogators' of the report
summarize_interrogators(registry) ==
    [class \in DOMAIN registry |->
        [check_types |-> ToSet(registry[class].check_types),
         method_count |-> Len(registry[class].methods)]]

\* InterrogatorRegistry.discover: every module of aws/ is imported; each
\* BaseInterrogator subclass of a module that imports is stored under its
\* name, a module that raises is logged and skipped.  A class object is
\* modelled by its name.
discover(registered, loadable) ==
    [name \in loadable |-> name] @@ registered
\* the classes whose modules import: all of them, none (no aws/ directory),
\* or all but one (its module raises on import)
ModuleDirs == {Interrogators, {}, Interrogators \ {"IAMPolicyInterrogator"}}

\* a control of the mapping engine's catalog
MapCtl(id, class, check_type, title, description, service) ==
    Ctl(id, class, check_type, None, None, title, service)
        @@ [description |-> description, mapping_notes |-> None]

PasswordLengthTitle == {"password", "length", "minimum", "characters"}

\* control records found in the definition files
MappedControls ==
    {MapCtl("m-bound", "IAMPolicyInterrogator", "password_length", PasswordLengthTitle, {}, "iam"),
     MapCtl("m-nokind", "IAMPolicyInterrogator", None, {"mfa"}, {}, "iam"),
     MapCtl("m-newkind", "IAMPolicyInterrogator", "password_complexity", {"password"}, {}, "iam"),
     MapCtl("m-net", "NetworkSecurityInterrogator", "ingress_rules", {"ingress", "port"}, {}, "ec2"),
     NoInterrogation(MapCtl("m-nospec", None, None, {"password"}, {}, "iam")),
     NoParams(MapCtl("m-noparams", "IAMPolicyInterrogator", None, {"password"}, {}, "iam")),
     MapCtl("m-t0", "PasswordChecker", "min_length", {}, {}, "iam"),
     MapCtl("m-t1", "PasswordChecker", "min_length", PasswordLengthTitle, {}, "iam"),
     MapCtl("m-t2", "PasswordChecker", "min_length", PasswordLengthTitle, {"reuse", "prevent"}, "iam"),
     MapCtl("m-t3", "PasswordChecker", None, {"password", "length", "minimum", "reuse"}, {}, "iam"),
     MapCtl("m-t4", "CredentialChecker", "unused", {"iam", "credentials"}, {}, "iam"),
     MapCtl("m-t5", "CredentialChecker", "rotate", {"rotation"}, {}, "iam"),
     MapCtl("m-t6", "FirewallChecker", "open_ports", {"network", "ingress", "public"}, {}, "ec2"),
     MapCtl("m-t7", "ExposureChecker", "exposed", {"public", "accessible"}, {"internet"}, "s3"),
     MapCtl("m-t8", "ExposureChecker", "exposed", {"mfa", "public", "internet"}, {}, "s3"),
     MapCtl("m-t9", "ExposureChecker", "exposed", {"mfa"}, {"public"}, "s3")}

DistinctIds(controls) ==
    \A i, j \in DOMAIN controls :
        controls[i].control_id = controls[j].control_id => i = j

\* one definition file per control: {"service": ..., "controls": [control]}
MapFile(control) == [service |-> control.service, controls |-> <<control>>]

ControlDirs ==
    {[i \in DOMAIN cs |-> MapFile(cs[i])] :
        cs \in {s \in SeqsUpTo(MappedControls, MaxMapControls) : DistinctIds(s)}}

RECURSIVE load_controls(_)
load_controls(files) ==
    IF files = <<>> THEN <<>>
    ELSE Head(files).controls \o load_controls(Tail(files))

\* the pattern table of _suggest_interrogator, in its iteration order
Pattern(interrogator, keywords, check_types) ==
    [interrogator |-> interrogator, keywords |-> keywords, check_types |-> check_types]
CheckPattern(check_type, keywords) == [check_type |-> check_type, keywords |-> keywords]

patterns ==
    <<Pattern("IAMPolicyInterrogator",
              <<"password", "mfa", "access key", "credentials", "iam">>,
              <<CheckPattern("password_length", <<"length", "minimum", "characters">>),
                CheckPattern("password_reuse", <<"reuse", "prevent">>),
                CheckPattern("password_expiry", <<"expir", "days", "max">>),
                CheckPattern("mfa_enabled", <<"mfa", "multi-factor">>),
                CheckPattern("access_key_rotation", <<"rotation", "rotate", "90 days">>),
                CheckPattern("root_access_keys", <<"root", "access key">>)>>),
      Pattern("NetworkSecurityInterrogator",
              <<"security group", "nacl", "network", "ingress", "egress">>,
              <<CheckPattern("ingress_rules", <<"ingress", "0.0.0.0/0", "port">>),
                CheckPattern("default_sg_rules", <<"default", "security group">>),
                CheckPattern("nacl_rules", <<"nacl", "network acl">>)>>),
      Pattern("ResourcePublicAccessInterrogator",
              <<"public", "internet", "accessible", "0.0.0.0/0">>,
              <<CheckPattern("public_access", <<"public", "accessible">>),
                CheckPattern("s3_public", <<"s3", "bucket", "public">>),
                CheckPattern("snapshot_public", <<"snapshot", "public">>),
                CheckPattern("rds_public", <<"rds", "database", "public">>)>>)>>

\* kw in title or kw in desc
Hit(kw, control) == kw \in control.title \cup control.description
Matched(keywords, control) == SelectSeq(keywords, LAMBDA kw : Hit(kw, control))
keyword_score(keywords, control) == Len(Matched(keywords, control))

NoMatch == [interrogator |-> None, check_type |-> None, reason |-> <<>>]
NoBest == [best_match |-> NoMatch, best_score |-> 0]

\* the inner loop: every check type with a hit replaces best_match
RECURSIVE BestCheckType(_, _, _, _)
BestCheckType(pattern, check_types, control, best) ==
    IF check_types = <<>> THEN best
    ELSE LET ct == Head(check_types)
             check_score == keyword_score(ct.keywords, control)
         IN BestCheckType(pattern, Tail(check_types), control,
                IF check_score > 0
                THEN [best_match |->
                         [interrogator |-> pattern.interrogator,
                          check_type |-> ct.check_type,
                          reason |-> <<"Matched keywords">> \o Matched(ct.keywords, control)],
                      best_score |-> keyword_score(pattern.keywords, control) + check_score]
                ELSE best)

\* the outer loop over the pattern table
RECURSIVE BestPattern(_, _, _, _)
BestPattern(ps, control, registry, best) ==
    IF ps = <<>> THEN best
    ELSE LET p == Head(ps) IN
         BestPattern(Tail(ps), control, registry,
            IF p.interrogator \notin DOMAIN registry THEN best
            ELSE IF keyword_score(p.keywords, control) > best.best_score
                 THEN BestCheckType(p, p.check_types, control, best)
                 ELSE best)

suggest_interrogator(control, registry) ==
    BestPattern(patterns, control, registry, NoBest).best_match

\* _map_single_control; a missing "interrogation" or "parameters" key is a KeyError
map_single_control(control, registry) ==
    IF ~control.has_interrogation \/ ~control.has_params THEN [status |-> Raised]
    ELSE IF control.class \in DOMAIN registry
    THEN IF control.check_type = None
            \/ control.check_type \in ToSet(registry[control.class].check_types)
         THEN [status |-> "mapped", control_id |-> control.control_id,
               interrogator |-> control.class, check_type |-> control.check_type]
         ELSE [status |-> "needs_new_method", control_id |-> control.control_id,
               current_interrogator |-> control.class,
               suggested_interrogator |-> control.class,
               needed_check_type |-> control.check_type,
               reason |-> <<"Check type not found in interrogator", control.check_type>>]
    ELSE LET suggested == suggest_interrogator(control, registry) IN
         IF suggested # NoMatch
         THEN [status |-> "remapped", control_id |-> control.control_id,
               old_interrogator |-> control.class,
               new_interrogator |-> suggested.interrogator,
               new_check_type |-> suggested.check_type,
               reason |-> suggested.reason]
         ELSE [status |-> "unmapped", control_id |-> control.control_id,
               title |-> control.title, current_interrogator |-> control.class,
               reason |-> <<"No suitable interrogator found">>]

WithStatus(mappings, status) == SelectSeq(mappings, LAMBDA m : m.status = status)

\* _map_controls: the four result collections, or the KeyError of a control
map_controls(controls, registry) ==
    LET mappings == [i \in DOMAIN controls |-> map_single_control(controls[i], registry)]
        needed == WithStatus(mappings, "needs_new_method")
    IN IF \E i \in DOMAIN mappings : mappings[i].status = Raised
       THEN [status |-> Raised]
       ELSE [status |-> "results",
             mapped |-> WithStatus(mappings, "mapped"),
             unmapped |-> WithStatus(mappings, "unmapped"),
             remapped |-> WithStatus(mappings, "remapped"),
             new_methods_needed |->
                [k \in {needed[i].suggested_interrogator : i \in DOMAIN needed} |->
                    SelectSeq(needed, LAMBDA m : m.suggested_interrogator = k)]]

RECURSIVE SumLens(_, _)
SumLens(f, keys) ==
    IF keys = {} THEN 0
    ELSE LET k == CHOOSE x \in keys : TRUE IN Len(f[k]) + SumLens(f, keys \ {k})

\* _generate_report of the mapper
mapper_generate_report(r, registry) ==
    [status |-> "report",
     summary |->
        [total_controls |->
            Len(r.mapped) + Len(r.unmapped) + Len(r.remapped)
            + SumLens(r.new_methods_needed, DOMAIN r.new_methods_needed),
         mapped_controls |-> Len(r.mapped),
         remapped_controls |-> Len(r.remapped),
         unmapped_controls |-> Len(r.unmapped),
         interrogators_needing_methods |-> Cardinality(DOMAIN r.new_methods_needed)],
     mapped_controls |-> r.mapped,
     remapped_controls |-> r.remapped,
     unmapped_controls |-> r.unmapped,
     new_methods_needed |-> r.new_methods_needed,
     available_interrogators |-> summarize_interrogators(registry)]

\* the loop of generate_corrected_controls over mapping_report['remapped_controls']
Remap(control, remapping) ==
    [control EXCEPT !.class = remapping.new_interrogator,
                    !.check_type = remapping.new_check_type,
                    !.mapping_notes = <<"Remapped">> \o remapping.reason]

\* a deliberately wrong variant of ApplyRemappings: every remapping is applied
\* to every control, whatever its control_id
RECURSIVE ApplyRemappings_AnyControl(_, _)
ApplyRemappings_AnyControl(control, remappings) ==
    IF remappings = <<>> THEN control
    ELSE ApplyRemappings_AnyControl(Remap(control, Head(remappings)), Tail(remappings))

RECURSIVE ApplyRemappings(_, _)
ApplyRemappings(control, remappings) ==
    IF remappings = <<>> THEN control
    ELSE ApplyRemappings(IF Head(remappings).control_id = control.control_id
                         THEN Remap(control, Head(remappings))
                         ELSE control,
                         Tail(remappings))

\* controls_by_file[service]
RECURSIVE ControlsOfService(_, _, _)
ControlsOfService(files, service, remappings) ==
    IF files = <<>> THEN <<>>
    ELSE (IF Head(files).service = service
          THEN [j \in DOMAIN Head(files).controls |->
                   ApplyRemappings(Head(files).controls[j], remappings)]
          ELSE <<>>)
         \o ControlsOfService(Tail(files), service, remappings)

\* generate_corrected_controls: one output file per service
generate_corrected_controls(a_report, files) ==
    [status |-> "written",
     files |-> [service \in {files[i].service : i \in DOMAIN files} |->
                   ControlsOfService(files, service, a_report.remapped_controls)]]

InitMap ==
    /\ CsvIdle
    /\ CallIdle
    /\ EngineIdle
    /\ CovIdle
    /\ DedupIdle
    /\ interrogators_dir \in InterrogatorDirs
    /\ controls_dir \in ControlDirs
    /\ interrogator_registry = <<>>
    /\ mapping_report = [status |-> NoReport]
    /\ corrected_controls = [status |-> NoReport]
    /\ modules_dir \in ModuleDirs
    /\ interrogators = <<>>

\* analyze_and_map: discover, load, map, report
AnalyzeAndMap ==
    /\ LET registry == discover_interrogators(interrogator_registry, interrogators_dir)
           r == map_controls(load_controls(controls_dir), registry)
       IN /\ interrogator_registry' = registry
          /\ mapping_report' = IF r.status = Raised THEN [status |-> Raised]
                               ELSE mapper_generate_report(r, registry)
    /\ UNCHANGED <<interrogators_dir, controls_dir, corrected_controls,
                   modules_dir, interrogators,
                   callVars, engineVars, covVars, dedupVars, csvVars>>

\* generate_corrected_controls(mapping_report, output_dir) on a report of
\* analyze_and_map
GenerateCorrectedControls ==
    /\ mapping_report.status = "report"
    /\ corrected_controls' = generate_corrected_controls(mapping_report, controls_dir)
    /\ UNCHANGED <<interrogators_dir, controls_dir, interrogator_registry,
                   mapping_report, modules_dir, interrogators,
                   callVars, engineVars, covVars, dedupVars, csvVars>>

\* InterrogatorRegistry.discover(interrogator_dir) on a registry object
Discover ==
    /\ interrogators' = discover(interrogators, modules_dir)
    /\ UNCHANGED <<interrogators_dir, controls_dir, interrogator_registry,
                   mapping_report, corrected_controls, modules_dir,
                   callVars, engineVars, covVars, dedupVars, csvVars>>

NextMap == AnalyzeAndMap \/ GenerateCorrectedControls \/ Discover

SpecMap == InitMap /\ [][NextMap]_vars

(***************************************************************************)
(* ControlDeduplicator                                                     *)
(* (src/mapping_engine/analyzers/control_deduplicator.py).                 *)
(* A title or description is the sequence of its characters.  A rational   *)
(* number is a record [num, den] with den > 0.                             *)
(***************************************************************************)
MaxDedupControls == 3   \* controls in the deduplicator's control directory
MaxDedupCalls == 2      \* analyze_duplicates calls on one object
MaxStr == 3             \* characters of a title handed to _calculate_similarity

\* the weights and the grouping threshold, in hundredths

TitleWeight == 40
DescriptionWeight == 30
ClassWeight == 20
ParametersWeight == 10
Threshold == 85

\* str.lower
lower(s) ==
    [i \in DOMAIN s |-> CASE s[i] = "A" -> "a" [] s[i] = "B" -> "b"
                          [] s[i] = "C" -> "c" [] OTHER -> s[i]]

\* the matching blocks of a and b: <<start in a, start in b, length>>
Blocks(a, b) ==
    {x \in (1..Len(a)) \X (1..Len(b)) \X (1..Len(a)) :
        /\ x[1] + x[3] - 1 <= Len(a)
        /\ x[2] + x[3] - 1 <= Len(b)
        /\ SubSeq(a, x[1], x[1] + x[3] - 1) = SubSeq(b, x[2], x[2] + x[3] - 1)}

\* SequenceMatcher.find_longest_match: the longest block, of those the one
\* starting earliest in a, of those the one starting earliest in b
LongestMatch(a, b) ==
    CHOOSE x \in Blocks(a, b) :
        \A y \in Blocks(a, b) :
            \/ x[3] > y[3]
            \/ (x[3] = y[3] /\ x[1] < y[1])
            \/ (x[3] = y[3] /\ x[1] = y[1] /\ x[2] <= y[2])

\* the characters in SequenceMatcher.get_matching_blocks: the longest match,
\* then the same to its left and to its right
RECURSIVE Matches(_, _)
Matches(a, b) ==
    IF Blocks(a, b) = {} THEN 0
    ELSE LET m == LongestMatch(a, b) IN
         m[3] + Matches(SubSeq(a, 1, m[1] - 1), SubSeq(b, 1, m[2] - 1))
              + Matches(SubSeq(a, m[1] + m[3], Len(a)), SubSeq(b, m[2] + m[3], Len(b)))

\* difflib.SequenceMatcher(None, a, b).ratio(): 2.0 * matches / length, 1.0
\* for two empty strings
ratio(a, b) ==
    IF Len(a) + Len(b) = 0 THEN [num |-> 1, den |-> 1]
    ELSE [num |-> 2 * Matches(a, b), den |-> Len(a) + Len(b)]

\* parameter values: numbers and strings
Num(n) == [numeric |-> TRUE, value |-> n]
Str(s) == [numeric |-> FALSE, text |-> s]
\* an interrogation['parameters'] dict, in key order
Param(key, value) == [key |-> key, value |-> value]
Keys(params) == {params[i].key : i \in DOMAIN params}
ValueAt(params, key) == params[CHOOSE i \in DOMAIN params : params[i].key = key].value

\* _compare_parameters
compare_parameters(params1, params2) ==
    IF params1 = <<>> /\ params2 = <<>> THEN [num |-> 1, den |-> 1]
    ELSE IF params1 = <<>> \/ params2 = <<>> THEN [num |-> 0, den |-> 1]
    ELSE LET common_keys == Keys(params1) \cap Keys(params2)
             all_keys == Keys(params1) \cup Keys(params2)
             c == Cardinality(common_keys)
             u == Cardinality(all_keys)
             value_matches ==
                Cardinality({k \in common_keys : ValueAt(params1, k) = ValueAt(params2, k)})
         IN IF c = 0 THEN [num |-> 0, den |-> 1]
            ELSE [num |-> c * c + value_matches * u, den |-> 2 * u * c]

\* _calculate_similarity, in hundredths
calculate_similarity(control1, control2) ==
    LET t == ratio(lower(control1.title), lower(control2.title))
        d == ratio(lower(control1.description), lower(control2.description))
        same_class == IF control1.class = control2.class THEN 1 ELSE 0
        p == compare_parameters(control1.params, control2.params)
    IN [num |-> TitleWeight * t.num * d.den * p.den
                + DescriptionWeight * d.num * t.den * p.den
                + ClassWeight * same_class * t.den * d.den * p.den
                + ParametersWeight * p.num * t.den * d.den,
        den |-> t.den * d.den * p.den]

\* similarity > 0.85
Similar(control1, control2) ==
    LET s == calculate_similarity(control1, control2) IN s.num > Threshold * s.den

\* a control of the deduplicator's catalog
DedupCtl(id, title, description, class, params, days, severity, standards) ==
    [control_id |-> id, title |-> title, description |-> description,
     class |-> class, params |-> params, days |-> days,
     severity |-> severity, standards |-> standards]

NoDays == <<>>
MinLength(n) ==
    <<Param("check_type", Str("password_length")), Param("min_length", Num(n))>>
Reuse == <<Param("check_type", Str("password_reuse")), Param("min_length", Num(14))>>

\* control records found in the definition files
DedupControls ==
    {DedupCtl("d-1", <<"A", "b">>, <<"x">>, "IAMPolicyInterrogator", MinLength(14), NoDays, "high", <<"cis">>),
     DedupCtl("d-2", <<"a">>, <<"x">>, "IAMPolicyInterrogator", MinLength(14), NoDays, "high", <<"nist">>),
     DedupCtl("d-3", <<"b">>, <<"x">>, "IAMPolicyInterrogator", MinLength(14), NoDays, "high", <<"pci">>),
     DedupCtl("d-4", <<"a", "b">>, <<"x">>, "IAMPolicyInterrogator", MinLength(8), NoDays, "high", <<"pci">>),
     DedupCtl("d-5", <<"a", "b">>, <<"x">>, "IAMPolicyInterrogator", MinLength(14), <<90>>, "medium", <<"nist">>),
     DedupCtl("d-6", <<"a", "b">>, <<"x">>, "IAMPolicyInterrogator", MinLength(14), <<90, 30>>, "high", <<"cis", "nist">>),
     DedupCtl("d-7", <<"c">>, <<"y">>, "NetworkSecurityInterrogator", <<>>, NoDays, "low", <<"cis">>),
     DedupCtl("d-8", <<"a", "b">>, <<"x">>, "IAMPolicyInterrogator", Reuse, NoDays, "high", <<"cis">>),
     DedupCtl("d-1", <<"a", "b">>, <<"x">>, "IAMPolicyInterrogator", MinLength(14), NoDays, "high", <<"pci">>)}

DedupDirs == SeqsUpTo(DedupControls, MaxDedupControls)

\* a deliberately wrong variant of SimilarControls: a later control joins
\* when it is similar to the control that joined last
RECURSIVE SimilarControls_Chained(_, _, _, _)
SimilarControls_Chained(control1, later, done, group) ==
    IF later = <<>> THEN [group |-> group, done |-> done]
    ELSE LET control2 == Head(later) IN
         IF control2.control_id \notin done /\ Similar(group[Len(group)], control2)
         THEN SimilarControls_Chained(control1, Tail(later),
                                      done \cup {control2.control_id}, Append(group, control2))
         ELSE SimilarControls_Chained(control1, Tail(later), done, group)

\* a deliberately wrong variant of SimilarControls: a later control joins
\* whether or not an earlier group has taken it
RECURSIVE SimilarControls_Reassigning(_, _, _, _)
SimilarControls_Reassigning(control1, later, done, group) ==
    IF later = <<>> THEN [group |-> group, done |-> done]
    ELSE LET control2 == Head(later) IN
         IF Similar(control1, control2)
         THEN SimilarControls_Reassigning(control1, Tail(later),
                                          done \cup {control2.control_id}, Append(group, control2))
         ELSE SimilarControls_Reassigning(control1, Tail(later), done, group)

\* the inner loop of _find_semantic_duplicates: the later controls that
\* join the group of control1
RECURSIVE SimilarControls(_, _, _, _)
SimilarControls(control1, later, done, group) ==
    IF later = <<>> THEN [group |-> group, done |-> done]
    ELSE LET control2 == Head(later) IN
         IF control2.control_id \notin done /\ Similar(control1, control2)
         THEN SimilarControls(control1, Tail(later),
                              done \cup {control2.control_id}, Append(group, control2))
         ELSE SimilarControls(control1, Tail(later), done, group)

\* a deliberately wrong variant of GroupFrom: the processed set is forgotten
\* from one group to the next
RECURSIVE GroupFrom_Forgetful(_, _, _, _)
GroupFrom_Forgetful(controls, i, done, groups) ==
    IF i > Len(controls) THEN groups
    ELSE LET g == SimilarControls(controls[i], SubSeq(controls, i + 1, Len(controls)),
                                  {controls[i].control_id}, <<controls[i]>>)
         IN GroupFrom_Forgetful(controls, i + 1, g.done,
                                Append(groups, [group_key |-> i - 1, controls |-> g.group]))

\* the outer loop of _find_semantic_duplicates
RECURSIVE GroupFrom(_, _, _, _)
GroupFrom(controls, i, done, groups) ==
    IF i > Len(controls) THEN groups
    ELSE IF controls[i].control_id \in done THEN GroupFrom(controls, i + 1, done, groups)
    ELSE LET g == SimilarControls(controls[i], SubSeq(controls, i + 1, Len(controls)),
                                  done \cup {controls[i].control_id}, <<controls[i]>>)
         IN GroupFrom(controls, i + 1, g.done,
                      Append(groups, [group_key |-> i - 1, controls |-> g.group]))

\* _find_semantic_duplicates: the groups of more than one control
find_semantic_duplicates(controls) ==
    SelectSeq(GroupFrom(controls, 1, {}, <<>>), LAMBDA g : Len(g.controls) > 1)

\* one entry of numeric_params[parameter]
NumericEntry(parameter, control, value) ==
    [parameter |-> parameter,
     entry |-> [control |-> control.control_id, value |-> value,
                standards |-> control.standards]]

\* what one control adds to numeric_params: its metadata['days'], then its
\* parameters whose value is an int or a float
NumericEntries(control) ==
    LET numbers == SelectSeq(control.params, LAMBDA p : p.value.numeric)
    IN [i \in DOMAIN control.days |-> NumericEntry("days", control, control.days[i])]
       \o [i \in DOMAIN numbers |->
              NumericEntry(numbers[i].key, control, numbers[i].value.value)]

RECURSIVE numeric_params(_)
numeric_params(controls) ==
    IF controls = <<>> THEN <<>>
    ELSE NumericEntries(Head(controls)) \o numeric_params(Tail(controls))

\* the keys of numeric_params, in the order they were first added
RECURSIVE FirstSeen(_, _)
FirstSeen(entries, seen) ==
    IF entries = <<>> THEN <<>>
    ELSE IF Head(entries).parameter \in seen THEN FirstSeen(Tail(entries), seen)
    ELSE <<Head(entries).parameter>>
         \o FirstSeen(Tail(entries), seen \cup {Head(entries).parameter})

ValuesOfParameter(entries, parameter) ==
    LET mine == SelectSeq(entries, LAMBDA e : e.parameter = parameter)
    IN [i \in DOMAIN mine |-> mine[i].entry]

\* unique_values
UniqueValues(values) == {values[i].value : i \in DOMAIN values}

\* _check_parameter_conflicts
check_parameter_conflicts(controls) ==
    LET entries == numeric_params(controls)
        conflicting ==
            SelectSeq(FirstSeen(entries, {}),
                      LAMBDA name : Cardinality(UniqueValues(ValuesOfParameter(entries, name))) > 1)
    IN [i \in DOMAIN conflicting |->
           [parameter |-> conflicting[i],
            values |-> ValuesOfParameter(entries, conflicting[i])]]

ControlIdsOf(controls) == [i \in DOMAIN controls |-> controls[i].control_id]
Severities(controls) == {controls[i].severity : i \in DOMAIN controls}

\* _find_conflicts
RECURSIVE find_conflicts(_)
find_conflicts(groups) ==
    IF groups = <<>> THEN <<>>
    ELSE LET controls == Head(groups).controls
             param_conflicts == check_parameter_conflicts(controls)
         IN (IF param_conflicts # <<>>
             THEN <<[type |-> "parameter_mismatch", controls |-> ControlIdsOf(controls),
                     conflicts |-> param_conflicts]>>
             ELSE <<>>)
            \o (IF Cardinality(Severities(controls)) > 1
                THEN <<[type |-> "severity_mismatch", controls |-> ControlIdsOf(controls),
                        severities |-> Severities(controls)]>>
                ELSE <<>>)
            \o find_conflicts(Tail(groups))

\* _suggest_master_control: the first control with the most standards
suggest_master_control(controls) ==
    controls[CHOOSE i \in DOMAIN controls :
                \A j \in DOMAIN controls :
                    \/ Len(controls[i].standards) > Len(controls[j].standards)
                    \/ (Len(controls[i].standards) = Len(controls[j].standards) /\ i <= j)].control_id

\* _generate_recommendations; conflict['parameter'] of a parameter_mismatch
\* conflict is a KeyError
RecommendationsRaise(found) ==
    \E i \in DOMAIN found : found[i].type = "parameter_mismatch"

generate_recommendations(groups, found) ==
    (IF groups # <<>> THEN <<[advice |-> "consolidate", groups |-> Len(groups)]>> ELSE <<>>)
    \o [i \in DOMAIN found |->
           [advice |-> "use the highest severity", severities |-> found[i].severities]]

\* _generate_report of the deduplicator
dedup_generate_report(controls, groups, found) ==
    IF RecommendationsRaise(found) THEN [status |-> Raised]
    ELSE [status |-> "report",
          summary |->
             [total_controls |-> Len(controls),
              duplicate_groups |-> Len(groups),
              controls_with_duplicates |->
                 SeqSum([i \in DOMAIN groups |-> Len(groups[i].controls)]),
              conflicts_found |-> Len(found)],
          duplicate_groups |->
             [i \in DOMAIN groups |->
                 [controls |->
                     [j \in DOMAIN groups[i].controls |->
                         [control_id |-> groups[i].controls[j].control_id,
                          title |-> groups[i].controls[j].title,
                          standards |-> groups[i].controls[j].standards,
                          interrogator |-> groups[i].controls[j].class]],
                  suggested_master |-> suggest_master_control(groups[i].controls)]],
          conflicts |-> found,
          recommendations |-> generate_recommendations(groups, found)]

InitDedup ==
    /\ CsvIdle
    /\ CallIdle
    /\ EngineIdle
    /\ CovIdle
    /\ MapIdle
    /\ dedup_dir \in DedupDirs
    /\ all_controls = <<>>
    /\ duplicate_groups = <<>>
    /\ conflicts = <<>>
    /\ dedup_report = [status |-> NoReport]
    /\ dedup_calls = 0
    /\ compared = NoPair
    /\ similarity = NoPair

\* analyze_duplicates: load, group, find conflicts, report
AnalyzeDuplicates ==
    /\ dedup_calls < MaxDedupCalls
    /\ LET loaded == all_controls \o dedup_dir
           groups == find_semantic_duplicates(loaded)
           found == find_conflicts(groups)
       IN /\ all_controls' = loaded
          /\ duplicate_groups' = groups
          /\ conflicts' = found
          /\ dedup_report' = dedup_generate_report(loaded, groups, found)
    /\ dedup_calls' = dedup_calls + 1
    /\ UNCHANGED <<dedup_dir, compared, similarity, callVars, engineVars, covVars, mapVars, csvVars>>

NextDedup == AnalyzeDuplicates

SpecDedup == InitDedup /\ [][NextDedup]_vars

\* the controls _calculate_similarity is called on
SimControls ==
    {DedupCtl("s", title, description, class, params, NoDays, "high", <<"cis">>) :
        title \in SeqsUpTo({"a", "b", "c"}, MaxStr),
        description \in {<<>>, <<"x">>},
        class \in {"IAMPolicyInterrogator", "NetworkSecurityInterrogator"},
        params \in {<<>>, MinLength(14), MinLength(8)}}

InitSim ==
    /\ CsvIdle
    /\ CallIdle
    /\ EngineIdle
    /\ CovIdle
    /\ MapIdle
    /\ dedup_dir = <<>> /\ all_controls = <<>>
    /\ duplicate_groups = <<>> /\ conflicts = <<>>
    /\ dedup_report = [status |-> NoReport] /\ dedup_calls = 0
    /\ compared \in SimControls \X SimControls
    /\ similarity = NoPair

\* _calculate_similarity(control1, control2) and _calculate_similarity(control2, control1)
CalculateSimilarity ==
    /\ similarity = NoPair
    /\ similarity' = <<calculate_similarity(compared[1], compared[2]),
                       calculate_similarity(compared[2], compared[1])>>
    /\ UNCHANGED <<dedup_dir, all_controls, duplicate_groups, conflicts, dedup_report,
                   dedup_calls, compared, callVars, engineVars, covVars, mapVars, csvVars>>

NextSim == CalculateSimilarity

SpecSim == InitSim /\ [][NextSim]_vars

(***************************************************************************)
(* CSVProcessorV2 (src/mapping_engine/processors/csv_processor_v2.py):     *)
(* the rows of the standards' CSV files are processed one by one.  A row   *)
(* is taken from CsvRows; its ControlId is "<prefix>.<n>" with a prefix of *)
(* service_prefix_map.  The metadata and interrogation a control also      *)
(* stores are functions of the first row alone and are left out.           *)
(***************************************************************************)
MaxRows == 3            \* rows read from the CSV files

CsvStandards == {"cis", "pci"}

CsvRow(prefix, n, title, description, severity) ==
    [ControlId |-> [prefix |-> prefix, n |-> n], Title |-> title,
     Description |-> description, SeverityRating |-> severity]

CsvRows ==
    {CsvRow("IAM", 5, "Enable MFA", "all", "HIGH"),
     CsvRow("IAM", 6, "Enable MFA", "all", "MEDIUM"),
     CsvRow("IAM", 7, "Enable MFA", "root:all", "HIGH"),
     CsvRow("IAM", 8, "Enable MFA:root", "all", "HIGH"),
     CsvRow("EC2", 1, "Rule 681 should be enabled", "Checks the rule", "LOW"),
     CsvRow("EC2", 2, "Rule 3573 should be enabled", "Checks the rule", "LOW"),
     CsvRow("S3", 1, "S3 buckets should block public access", "all", "HIGH")}

\* the entries of service_prefix_map the rows use
service_prefix_map == [prefix \in {"IAM", "EC2", "S3"} |->
    CASE prefix = "IAM" -> "iam" [] prefix = "EC2" -> "ec2" [] OTHER -> "s3"]

\* _determine_service_smart for a ControlId whose prefix is in the map
determine_service_smart(row) == service_prefix_map[row.ControlId.prefix]

\* _generate_control_key, the service indicator: the first prefix of the map
\* that occurs in title.upper(), 'AWS' when none does
ServiceIndicator(title) ==
    IF title = "S3 buckets should block public access" THEN "S3" ELSE "AWS"

\* _generate_control_key, the hash: hashlib.md5(f"{title}:{description}")
\* .hexdigest()[:6].upper(), evaluated on the contents of CsvRows
hash_val(title, description) ==
    CASE title = "Enable MFA" /\ description = "all" -> "F5A4E8"
      [] title = "Enable MFA" /\ description = "root:all" -> "C66C55"
      [] title = "Enable MFA:root" /\ description = "all" -> "C66C55"
      [] title = "Rule 681 should be enabled" /\ description = "Checks the rule"
            -> "D00EE9"
      [] title = "Rule 3573 should be enabled" /\ description = "Checks the rule"
            -> "D00EE9"
      [] title = "S3 buckets should block public access" /\ description = "all"
            -> "DF36AA"

generate_control_key(title, description) ==
    <<ServiceIndicator(title), hash_val(title, description)>>

\* the standards entry of one row
StandardEntry(row) ==
    [control_id |-> row.ControlId, severity |-> row.SeverityRating]

\* existing['standards'][standard] = {...} on a control seen before
AddStandard(existing, row, standard) ==
    [existing EXCEPT !.standards =
        [s \in {standard} |-> StandardEntry(row)] @@ existing.standards]

\* the control created for a key seen for the first time
NewControl(control_key, row, standard) ==
    [control_id |-> control_key, title |-> row.Title,
     description |-> row.Description, severity |-> row.SeverityRating,
     standards |-> [s \in {standard} |-> StandardEntry(row)]]

\* defaultdict(list)[key].append(item)
AppendAt(lists, key, item) ==
    [k \in {key} |-> IF key \in DOMAIN lists THEN Append(lists[key], item)
                     ELSE <<item>>] @@ lists

InitCsv ==
    /\ CallIdle
    /\ EngineIdle
    /\ CovIdle
    /\ MapIdle
    /\ DedupIdle
    /\ csv_rows = <<>>
    /\ unique_controls = <<>>
    /\ control_origins = <<>>
    /\ controls_by_service = <<>>

\* _process_control(row, standard) on the next row of a CSV file.
\* controls_by_service holds the control objects of unique_controls; the
\* model holds their keys.
ProcessControl ==
    /\ Len(csv_rows) < MaxRows
    /\ \E row \in CsvRows, standard \in CsvStandards :
        LET control_key == generate_control_key(row.Title, row.Description) IN
        /\ csv_rows' = Append(csv_rows, [row |-> row, standard |-> standard])
        /\ control_origins' =
                AppendAt(control_origins, control_key,
                         [standard |-> standard, original_id |-> row.ControlId])
        /\ IF control_key \in DOMAIN unique_controls
           THEN /\ unique_controls' =
                        [unique_controls EXCEPT ![control_key] =
                            AddStandard(@, row, standard)]
                /\ UNCHANGED controls_by_service
           ELSE /\ unique_controls' =
                        [k \in {control_key} |-> NewControl(control_key, row, standard)]
                        @@ unique_controls
                /\ controls_by_service' =
                        AppendAt(controls_by_service, determine_service_smart(row),
                                 control_key)
    /\ UNCHANGED <<callVars, engineVars, covVars, mapVars, dedupVars>>

NextCsv == ProcessControl

SpecCsv == InitCsv /\ [][NextCsv]_vars

(***************************************************************************)
(* Properties of one execute call (Spec).                                  *)
(***************************************************************************)
HasReturned == result.status = "returned"

EvidenceOf(phase) ==
    {i \in 1..Len(result.value.violations) : result.value.violations[i].phase = phase}

\* the audit log answers with exactly one well-formed event of an account
\* outside the organization, inside a valid lookback window
OneExternalEvent ==
    /\ build_cloudtrail_filter(call.control) # ""
    /\ WindowOk(call.env.today, call.context.days_back)
    /\ call.env.log = [ok |-> TRUE,
                       events |-> <<[accountId |-> ExtAccount, payload |-> "ok"]>>]

\* C1: every returned result that carries a verdict is classified compliant
\* exactly when its evidence list (current-state evidence followed by
\* historical evidence) is empty; so a result with historical evidence only
\* is not compliant.
C1_CompliantIffNoEvidence ==
    (HasReturned /\ result.value.violation_type # "error")
        => (result.value.violation_type = "compliant"
                <=> result.value.violations = <<>>)

\* C2: a result holding evidence of both phases is classified
\* current-violation, never historical-violation or compliant.
C2_CurrentTakesPrecedence ==
    (HasReturned /\ EvidenceOf("CurrentState") # {} /\ EvidenceOf("HistoricalEvent") # {})
        => result.value.violation_type = "current"

C2_Witness ==
    /\ HasReturned
    /\ EvidenceOf("CurrentState") # {}
    /\ EvidenceOf("HistoricalEvent") # {}
    /\ call.control.class = "ResourcePublicAccessInterrogator"

\* the check methods whose CurrentState phase swallows its errors
SwallowingCheck ==
    \/ /\ call.control.class = "IAMPolicyInterrogator"
       /\ call.control.check_type = "root_access_keys"
    \/ /\ call.control.class = "ResourcePublicAccessInterrogator"
       /\ PublicAccessRoute(call.control) = "rds"

\* C3: when the CurrentState phase raised an error and the HistoricalEvent
\* phase found one external-actor event, execute returns a result classified
\* historical-violation, and the result records the current-state error
\* apart from the evidence.
C3_ErrorThenHistorical ==
    (result # NotCalledResult /\ SwallowingCheck
        /\ call.env.cur.kind = "error" /\ OneExternalEvent)
        => /\ HasReturned
           /\ result.value.violation_type = "historical"
           /\ "error" \in DOMAIN result.value.summary

\* C5: no HistoricalEvent evidence of a returned result has an acting account
\* of the configured organization account set.
C5_NoTrustedAccountEvidence ==
    HasReturned =>
        \A i \in EvidenceOf("HistoricalEvent") :
            result.value.violations[i].offender_account \notin org_accounts

(***************************************************************************)
(* Properties of an engine run (SpecEngine).                               *)
(***************************************************************************)
Reported == processed.raw_results

\* C4: when execute has returned, every control it selected is in the
\* report (none was dropped), and no control that the report counts as
\* compliant is one whose check ended in an error: a result counted
\* compliant is classified compliant.
C4_EveryControlReported ==
    pc = "done" =>
        /\ processed.statistics.total_controls_checked = controls_executed
        /\ \A i \in DOMAIN outcomes :
              \E j \in DOMAIN Reported :
                  Reported[j].control.control_id = outcomes[i].control_id
        /\ \A j \in DOMAIN Reported :
              Reported[j].result.violations = <<>>
                  => Reported[j].result.violation_type = "compliant"

(***************************************************************************)
(* Properties of the coverage validator (SpecCov).                         *)
(***************************************************************************)
HasReport == report.status = "returned"

\* the control records of the directory, in loading order
Controls == load_all_controls(control_files).controls

\* the control declares a checker that is in the registry
IsRegistered(c) ==
    c.has_interrogation /\ c.class # None /\ c.class \in DOMAIN available

\* and the check-kind it declares, if any, is in that checker's capability set
IsSupported(c) ==
    /\ IsRegistered(c)
    /\ (c.has_params /\ c.check_type # None) => c.check_type \in available[c.class]

PassCount == Cardinality({i \in DOMAIN Controls : IsSupported(Controls[i])})

HasWarning(c) ==
    \E i \in DOMAIN validation_results.warnings :
        /\ validation_results.warnings[i].type = "missing_parameter"
        /\ validation_results.warnings[i].control_id = c.control_id

CountedValid(c) ==
    \E i \in DOMAIN validation_results.valid :
        validation_results.valid[i].control_id = c.control_id

\* C6: the coverage percentage of a report is (controls that pass
\* validation) / (total controls) x 100, rounded to hundredths, and it is
\* 100 only if every control's checker is registered and every declared
\* check-kind is in that checker's capability set.
C6_CoveragePercentage ==
    HasReport =>
        /\ report.summary.coverage_percentage
              = coverage_percentage(PassCount, Len(Controls))
        /\ report.summary.coverage_percentage = 10000
              => \A i \in DOMAIN Controls : IsSupported(Controls[i])

\* C7: a control whose spec is present, whose checker is registered and
\* whose declared check-kind is supported is counted valid also when a
\* missing-parameter warning was emitted for it.
C7_WarningIsNotFatal ==
    HasReport =>
        \A i \in DOMAIN Controls :
            (IsSupported(Controls[i]) /\ HasWarning(Controls[i]))
                => CountedValid(Controls[i])

\* the reason a control is failed with, in the order of the checks; None
\* when it is not failed
ReasonInOrder(c) ==
    CASE ~c.has_interrogation -> MissingInterrogation
      [] c.has_interrogation /\ c.class = None -> NoClassSpecified
      [] c.has_interrogation /\ c.class # None /\ ~IsRegistered(c) -> InterrogatorNotFound
      [] IsRegistered(c) /\ ~IsSupported(c) -> CheckTypeNotFound
      [] OTHER -> None

\* the same with the three reasons only: a control that declares no checker
\* matches none of them
ReasonOfThree(c) ==
    IF ReasonInOrder(c) = NoClassSpecified THEN None ELSE ReasonInOrder(c)

\* the records one call validates: those before the first without an id
RECURSIVE Reached(_)
Reached(cs) ==
    IF cs = <<>> \/ ~Head(cs).has_id THEN <<>> ELSE <<Head(cs)>> \o Reached(Tail(cs))

Failures(cs, Reason(_)) ==
    LET failing == SelectSeq(cs, LAMBDA c : Reason(c) # None)
    IN [i \in DOMAIN failing |->
           [control_id |-> failing[i].control_id, reason |-> Reason(failing[i])]]

RECURSIVE Times(_, _)
Times(s, k) == IF k = 0 THEN <<>> ELSE s \o Times(s, k - 1)

RecordedFailures ==
    [i \in DOMAIN validation_results.invalid |->
        [control_id |-> validation_results.invalid[i].control_id,
         reason |-> validation_results.invalid[i].reason]]

C9_MissingCheckers ==
    HasReport =>
        report.missing_interrogators
            = {Controls[i].class :
                  i \in {j \in DOMAIN Controls :
                            /\ Controls[j].has_interrogation
                            /\ Controls[j].class # None
                            /\ Controls[j].class \notin DOMAIN available}}

\* C10: every call of validate_coverage returns a report, with percentage
\* 0 for an empty control set; every call of process returns a report,
\* with percentage 0 for an empty result list.
C10_AlwaysAReport ==
    /\ calls > 0 =>
          /\ HasReport
          /\ Controls = <<>> => report.summary.coverage_percentage = 0
    /\ pc = "done" =>
          /\ processed.status = "returned"
          /\ results = <<>> => processed.statistics.compliance_percentage.num = 0

(***************************************************************************)
(* Properties of a mapping run (SpecMap).                                  *)
(***************************************************************************)
MapperRan == mapping_report.status # NoReport
MapperReported == mapping_report.status = "report"
CatalogControls == load_controls(controls_dir)

\* the binding decisions of the report, whatever list they are in
NeededDecisions ==
    {mapping_report.new_methods_needed[k][i] :
        <<k, i>> \in {<<k, i>> \in (DOMAIN mapping_report.new_methods_needed)
                                     \X (1..Len(CatalogControls)) :
                        i \in DOMAIN mapping_report.new_methods_needed[k]}}
InList(list) == {list[i] : i \in DOMAIN list}
Decisions ==
    IF MapperReported
    THEN InList(mapping_report.mapped_controls) \cup InList(mapping_report.remapped_controls)
         \cup InList(mapping_report.unmapped_controls) \cup NeededDecisions
    ELSE {}
DecisionsOf(control) == {d \in Decisions : d.control_id = control.control_id}
StatusesOf(control) == {d.status : d \in DecisionsOf(control)}

InCatalog == {CatalogControls[i] : i \in DOMAIN CatalogControls}
Unregistered ==
    {c \in InCatalog : c.has_interrogation /\ c.has_params
                       /\ c.class \notin DOMAIN interrogator_registry}

\* C11: once analyze_and_map has run, there is a report; every control of
\* the catalog has exactly one binding decision, in the list of its status;
\* and the sizes of the four lists sum to the number of controls.
C11_OneDecisionPerControl ==
    MapperRan =>
        /\ MapperReported
        /\ \A c \in InCatalog : Cardinality(DecisionsOf(c)) = 1
        /\ \A d \in InList(mapping_report.mapped_controls) : d.status = "mapped"
        /\ \A d \in InList(mapping_report.remapped_controls) : d.status = "remapped"
        /\ \A d \in InList(mapping_report.unmapped_controls) : d.status = "unmapped"
        /\ \A d \in NeededDecisions : d.status = "needs_new_method"
        /\ mapping_report.summary.total_controls = Len(CatalogControls)
        /\ Len(mapping_report.mapped_controls) + Len(mapping_report.remapped_controls)
             + Len(mapping_report.unmapped_controls) + Cardinality(NeededDecisions)
           = Len(CatalogControls)

\* C12: once analyze_and_map has run, a control whose declared class is in
\* the registry has the status "mapped" when its check type is supported or
\* not declared, and "needs_new_method" otherwise, and no other status.
C12_RegisteredCheckerNeverRebound ==
    MapperRan =>
        \A c \in InCatalog :
            (c.has_interrogation /\ c.class \in DOMAIN interrogator_registry) =>
                StatusesOf(c) =
                    {IF c.check_type = None
                        \/ c.check_type \in ToSet(interrogator_registry[c.class].check_types)
                     THEN "mapped" ELSE "needs_new_method"}

\* the candidates of the heuristic: (pattern, check type) positions of the
\* pattern table whose interrogator is registered, in iteration order
Candidates ==
    UNION {{<<p, k>> : k \in DOMAIN patterns[p].check_types} :
              p \in {q \in DOMAIN patterns :
                        patterns[q].interrogator \in DOMAIN interrogator_registry}}
PairScore(pk, control) ==
    keyword_score(patterns[pk[1]].keywords, control)
    + keyword_score(patterns[pk[1]].check_types[pk[2]].keywords, control)
Before(a, b) == a[1] < b[1] \/ (a[1] = b[1] /\ a[2] < b[2])
\* a candidate of the highest score, the first of them in iteration order
IsBest(pk, control) ==
    \A other \in Candidates :
        \/ PairScore(other, control) < PairScore(pk, control)
        \/ (PairScore(other, control) = PairScore(pk, control) /\ ~Before(other, pk))
Proposed(d) ==
    {pk \in Candidates :
        /\ patterns[pk[1]].interrogator = d.new_interrogator
        /\ patterns[pk[1]].check_types[pk[2]].check_type = d.new_check_type}

\* C13: the pair a "remapped" decision proposes is the registered
\* (interrogator, check type) pair of the highest keyword score, that score
\* is above zero, and among pairs of equal score it is the first in the
\* iteration order of the pattern table.
C13_HighestScoringPair ==
    MapperReported =>
        \A c \in Unregistered : \A d \in DecisionsOf(c) :
            d.status = "remapped" =>
                \E pk \in Proposed(d) : PairScore(pk, c) > 0 /\ IsBest(pk, c)

\* the keyword hits of a registered interrogator's family
CheckerScores(control) ==
    {keyword_score(patterns[p].keywords, control) :
        p \in {q \in DOMAIN patterns : patterns[q].interrogator \in DOMAIN interrogator_registry}}

\* C14: a control whose declared class is not registered is "unmapped"
\* exactly when no registered interrogator scores above zero against its
\* title and description.
C14_UnmappedIffNoScore ==
    MapperReported =>
        \A c \in Unregistered :
            ("unmapped" \in StatusesOf(c)) <=> (\A s \in CheckerScores(c) : s = 0)

Listed(reason) == {reason[i] : i \in DOMAIN reason}

\* C15: with IAMPolicyInterrogator registered, a control of an unregistered
\* class whose title contains "password length minimum 14 characters" is
\* proposed IAMPolicyInterrogator with password_length, and the reason lists
\* "password" and "length".
C15_PasswordLengthProposal ==
    (MapperReported /\ "IAMPolicyInterrogator" \in DOMAIN interrogator_registry) =>
        \A c \in Unregistered :
            PasswordLengthTitle \subseteq c.title =>
                \E d \in DecisionsOf(c) :
                    /\ d.status = "remapped"
                    /\ d.new_interrogator = "IAMPolicyInterrogator"
                    /\ d.new_check_type = "password_length"
                    /\ {"password", "length"} \subseteq Listed(d.reason)

\* the controls of the corrected files, whatever file they are in
CorrectedOutput ==
    IF corrected_controls.status = "written"
    THEN UNION {InList(corrected_controls.files[s]) : s \in DOMAIN corrected_controls.files}
    ELSE {}
RemappedDecisionsOf(control) == {d \in DecisionsOf(control) : d.status = "remapped"}

\* what a "remapped" decision tells about the binding it replaces
CarriesOldChecker(d, control) == d.old_interrogator = control.class
CarriesOldBinding(d, control) ==
    /\ CarriesOldChecker(d, control)
    /\ "old_check_type" \in DOMAIN d
    /\ d["old_check_type"] = control.check_type
CarriesNewBinding(d, control) ==
    /\ d.new_interrogator = suggest_interrogator(control, interrogator_registry).interrogator
    /\ d.new_check_type = suggest_interrogator(control, interrogator_registry).check_type

\* the controls as generate_corrected_controls must write them: rebound
\* where there is a "remapped" decision, as stored otherwise
ExpectedOutput ==
    {IF RemappedDecisionsOf(c) = {} THEN c
     ELSE Remap(c, CHOOSE d \in RemappedDecisionsOf(c) : TRUE) : c \in InCatalog}
OutputAsExpected ==
    corrected_controls.status = "written" => CorrectedOutput = ExpectedOutput

DedupRan == dedup_calls > 0
DedupReported == dedup_report.status = "report"
ReportedGroups == IF DedupReported THEN dedup_report.duplicate_groups ELSE <<>>

OneGroupPerControl(groups) ==
    \A g, h \in DOMAIN groups :
        \A i \in DOMAIN groups[g].controls : \A j \in DOMAIN groups[h].controls :
            groups[g].controls[i].control_id = groups[h].controls[j].control_id
                => (g = h /\ i = j)
TwoOrMore(groups) == \A g \in DOMAIN groups : Len(groups[g].controls) >= 2

\* C17: in the groups that _find_semantic_duplicates returns and in the
\* groups of the report, no control id occurs twice, in one group or in
\* two, and every group has at least two members.
C17_OneGroupPerControl ==
    /\ OneGroupPerControl(duplicate_groups) /\ TwoOrMore(duplicate_groups)
    /\ OneGroupPerControl(ReportedGroups) /\ TwoOrMore(ReportedGroups)

\* a reported group holding a control id that the loaded controls carry
\* more than once
C17_Witness ==
    /\ DedupReported
    /\ \E g \in DOMAIN ReportedGroups : \E k \in DOMAIN ReportedGroups[g].controls :
          \E i, j \in DOMAIN all_controls :
              /\ i # j
              /\ all_controls[i].control_id = ReportedGroups[g].controls[k].control_id
              /\ all_controls[j].control_id = ReportedGroups[g].controls[k].control_id

\* C18, as stated: every two controls of a reported group have a
\* similarity above 0.85.
C18_PairwiseSimilar ==
    DedupReported =>
        \A g \in DOMAIN duplicate_groups :
            \A i, j \in DOMAIN duplicate_groups[g].controls :
                i < j => Similar(duplicate_groups[g].controls[i], duplicate_groups[g].controls[j])

\* C18, amended: every control of a reported group other than the first has
\* a similarity above 0.85 with the group's first control, computed as
\* _calculate_similarity(first, control).
C18_SimilarToFirst ==
    DedupReported =>
        \A g \in DOMAIN duplicate_groups :
            \A j \in DOMAIN duplicate_groups[g].controls :
                j > 1 => Similar(duplicate_groups[g].controls[1], duplicate_groups[g].controls[j])

\* a reported group with two controls that joined the first one and are not
\* similar to each other
C18_Witness ==
    /\ DedupReported
    /\ \E g \in DOMAIN duplicate_groups :
          \E i, j \in DOMAIN duplicate_groups[g].controls :
              /\ 1 < i /\ i < j
              /\ ~Similar(duplicate_groups[g].controls[i], duplicate_groups[g].controls[j])

\* C19: _calculate_similarity gives the same score for (A, B) and (B, A).
C19_SimilaritySymmetric ==
    similarity # NoPair =>
        similarity[1].num * similarity[2].den = similarity[2].num * similarity[1].den

\* the numeric values a group holds for a parameter name: metadata day
\* counts under "days", and the numeric parameters of that name
NumericValues(controls, name) ==
    UNION {(IF name = "days" THEN {c.days[k] : k \in DOMAIN c.days} ELSE {})
           \cup {c.params[k].value.value :
                    k \in {x \in DOMAIN c.params :
                              c.params[x].key = name /\ c.params[x].value.numeric}} :
           c \in InList(controls)}
ParameterNames(controls) ==
    {"days"} \cup UNION {Keys(controls[i].params) : i \in DOMAIN controls}

EmittedConflicts ==
    IF DedupReported THEN InList(dedup_report.conflicts) ELSE {}
ParameterMismatch(controls, name) ==
    \E c \in EmittedConflicts :
        /\ c.type = "parameter_mismatch"
        /\ c.controls = ControlIdsOf(controls)
        /\ \E k \in DOMAIN c.conflicts :
              /\ c.conflicts[k].parameter = name
              /\ c.conflicts[k].values = ValuesOfParameter(numeric_params(controls), name)
SeverityMismatch(controls) ==
    \E c \in EmittedConflicts :
        /\ c.type = "severity_mismatch"
        /\ c.controls = ControlIdsOf(controls)
        /\ c.severities = Severities(controls)

\* C20: once analyze_duplicates has run, for every duplicate group it found
\* and every parameter name, a parameter_mismatch conflict with all the
\* numeric values of that name, their controls and standards is emitted
\* exactly when the group holds more than one distinct numeric value for the
\* name, and a severity_mismatch conflict is emitted exactly when the
\* group's severities differ.
C20_ConflictsEmitted ==
    DedupRan =>
        \A g \in DOMAIN duplicate_groups :
            /\ \A name \in ParameterNames(duplicate_groups[g].controls) :
                  ParameterMismatch(duplicate_groups[g].controls, name)
                  <=> Cardinality(NumericValues(duplicate_groups[g].controls, name)) > 1
            /\ SeverityMismatch(duplicate_groups[g].controls)
               <=> Cardinality(Severities(duplicate_groups[g].controls)) > 1
\* the recommendations of the report that answer a conflict
ConflictRecommendations ==
    SelectSeq(dedup_report.recommendations, LAMBDA r : r.advice # "consolidate")

\* C21: once analyze_duplicates has found a parameter_mismatch or a
\* severity_mismatch conflict, it has returned a report, the report holds
\* one recommendation per conflict, and the loaded controls are the stored
\* ones, unchanged.
C21_ReportDespiteConflicts ==
    (DedupRan /\ conflicts # <<>>) =>
        /\ DedupReported
        /\ Len(ConflictRecommendations) = Len(conflicts)
        /\ dedup_report.conflicts = conflicts
        /\ all_controls = Times(dedup_dir, dedup_calls)
\* the capability manifest of the mapper object
Manifest == summarize_interrogators(interrogator_registry)

\* C22: once capability discovery has run on a mapper or registry object, a
\* further run on the unchanged sources leaves what the object holds as it
\* was: the same classes, the same check types for each, the same number of
\* methods, no entry added, repeated or lost.
C22_RediscoverySameManifest ==
    [][/\ MapperRan =>
            /\ interrogator_registry' = interrogator_registry
            /\ summarize_interrogators(interrogator_registry') = Manifest
       /\ interrogators # <<>> => interrogators' = interrogators]_vars

\* discovery has run on both objects and found classes
C22_Witness ==
    /\ MapperRan
    /\ DOMAIN Manifest = Interrogators \ {"IAMPolicyInterrogator"}
    /\ Manifest["NetworkSecurityInterrogator"].method_count = 8
    /\ DOMAIN interrogators = Interrogators
\* C23: after validate_coverage has discovered the interrogators, the check
\* types it holds for every class are the union of the class's _check_*
\* method names and of the literals its execute compares check_type with.
C23_MethodsAndLiterals ==
    calls > 0 =>
        \A class \in DOMAIN available :
            available[class] = CheckMethods(class) \cup CheckLiterals(class)
\* the rows read so far whose title and description are those of row r
SameContent(r) ==
    {i \in DOMAIN csv_rows : /\ csv_rows[i].row.Title = r.Title
                             /\ csv_rows[i].row.Description = r.Description}
\* the distinct title and description contents read so far
ContentsSeen ==
    {<<csv_rows[i].row.Title, csv_rows[i].row.Description>> : i \in DOMAIN csv_rows}
\* the control stored for a row's content
ControlOf(r) == unique_controls[generate_control_key(r.Title, r.Description)]

\* C24, first half: rows with the same title and description are stored as
\* one control, and the standards mapping of that control holds, for every
\* standard such a row came from, the native id of the last such row.
C24_StandardsCollapse ==
    \A i \in DOMAIN csv_rows :
        LET r == csv_rows[i].row
            last == CHOOSE j \in SameContent(r) :
                        /\ csv_rows[j].standard = csv_rows[i].standard
                        /\ \A k \in SameContent(r) :
                              csv_rows[k].standard = csv_rows[i].standard => k <= j
        IN /\ generate_control_key(r.Title, r.Description) \in DOMAIN unique_controls
           /\ csv_rows[i].standard \in DOMAIN ControlOf(r).standards
           /\ ControlOf(r).standards[csv_rows[i].standard].control_id
                = csv_rows[last].row.ControlId

\* C24: rows with the same title and description from different standards
\* are one control holding both native ids, and there are as many unique
\* controls as distinct title and description contents read.
C24_OneControlPerContent ==
    /\ C24_StandardsCollapse
    /\ Cardinality(DOMAIN unique_controls) = Cardinality(ContentsSeen)
\* C25: in every returned result the evidence of the CurrentState phase has
\* no violation_timestamp and the evidence of the HistoricalEvent phase has
\* one.
C25_TimestampTellsPhase ==
    HasReturned =>
        /\ \A i \in EvidenceOf("CurrentState") :
              result.value.violations[i].violation_timestamp = None
        /\ \A i \in EvidenceOf("HistoricalEvent") :
              result.value.violations[i].violation_timestamp # None

\* C26: whatever the interrogator and the check type, an error raised in
\* the CurrentState phase does not leave execute, and the HistoricalEvent
\* phase runs after it: one external-actor event in the log is in the
\* result.
C26_BothPhasesAlwaysRun ==
    (result # NotCalledResult /\ call.env.cur.kind = "error") =>
        /\ HasReturned
        /\ OneExternalEvent => EvidenceOf("HistoricalEvent") # {}

\* the audit log holds one well-formed event of an external account for a
\* control that has a log filter
ExternalEventLogged ==
    /\ build_cloudtrail_filter(call.control) # ""
    /\ call.env.log = [ok |-> TRUE,
                       events |-> <<[accountId |-> ExtAccount, payload |-> "ok"]>>]

\* C27: whatever the day of the month and the lookback length, the
\* HistoricalEvent phase queries the audit log: an external-actor event the
\* log holds is in every returned result.
C27_WindowNeverFails ==
    (HasReturned /\ result.value.violation_type # "error" /\ ExternalEventLogged)
        => EvidenceOf("HistoricalEvent") # {}
\* the control ids the greedy pass has marked processed when it reaches
\* position i: the ids of the earlier controls and of the members of the
\* groups started before i
TakenBefore(i) ==
    {all_controls[k].control_id : k \in 1..(i - 1)}
    \cup UNION {{g.controls[k].control_id : k \in DOMAIN g.controls} :
                    g \in {duplicate_groups[n] : n \in
                              {n \in DOMAIN duplicate_groups :
                                  duplicate_groups[n].group_key < i - 1}}}
\* position i starts a group: its control is not taken yet
StartsGroup(i) == all_controls[i].control_id \notin TakenBefore(i)
\* the later positions that join the group started at i: not taken, similar
\* to the control at i, and the first such position for their control id
JoinsGroupOf(i) ==
    {j \in DOMAIN all_controls :
        /\ j > i
        /\ all_controls[j].control_id \notin TakenBefore(i) \cup {all_controls[i].control_id}
        /\ Similar(all_controls[i], all_controls[j])
        /\ ~\E k \in (i + 1)..(j - 1) :
              /\ all_controls[k].control_id = all_controls[j].control_id
              /\ Similar(all_controls[i], all_controls[k])}
\* the controls at a set of positions, in list order
RECURSIVE InListOrder(_)
InListOrder(positions) ==
    IF positions = {} THEN <<>>
    ELSE LET first == CHOOSE p \in positions : \A q \in positions : p <= q
         IN <<all_controls[first]>> \o InListOrder(positions \ {first})
\* the positions whose group the greedy pass reports
ReportedStarts == {i \in DOMAIN all_controls : StartsGroup(i) /\ JoinsGroupOf(i) # {}}

\* C28: for the list order of the loaded controls, the groups returned are
\* those of the greedy single pass: one group for every control that is not
\* taken when its turn comes and has a later untaken control with a
\* similarity above 0.85 to it, in list order; the group holds that control
\* first and then exactly those later controls, in list order.
C28_GreedySinglePass ==
    DedupRan =>
        /\ {duplicate_groups[n].group_key + 1 : n \in DOMAIN duplicate_groups}
              = ReportedStarts
        /\ \A n, k \in DOMAIN duplicate_groups :
              n < k => duplicate_groups[n].group_key < duplicate_groups[k].group_key
        /\ \A n \in DOMAIN duplicate_groups :
              LET i == duplicate_groups[n].group_key + 1 IN
              i \in DOMAIN all_controls =>
                  duplicate_groups[n].controls
                      = <<all_controls[i]>> \o InListOrder(JoinsGroupOf(i))

\* a run whose groups depend on the order: a control left out of every group
\* although it is similar to a member of a group that is not the group's
\* first control
C28_Witness ==
    /\ DedupRan
    /\ \E n \in DOMAIN duplicate_groups : \E j \in DOMAIN all_controls :
          /\ j > duplicate_groups[n].group_key + 1
          /\ \A g \in DOMAIN duplicate_groups : \A k \in DOMAIN duplicate_groups[g].controls :
                duplicate_groups[g].controls[k].control_id # all_controls[j].control_id
          /\ \E k \in DOMAIN duplicate_groups[n].controls :
                /\ k > 1
                /\ Similar(duplicate_groups[n].controls[k], all_controls[j])
\* the report of a call that starts from the validation_results of a new
\* validator object
FirstCallReport ==
    LET loaded == load_all_controls(control_files)
        v == ValidateEach(loaded.controls, available,
                          [valid |-> <<>>, invalid |-> <<>>, warnings |-> loaded.warnings])
    IN IF v.raised THEN [status |-> Raised]
       ELSE generate_report(loaded.controls, available, v.vr)

\* C29: every call of validate_coverage on one object over an unchanged
\* directory returns the report of the first call; in a returned report
\* valid_controls + invalid_controls is at most total_controls and the
\* coverage percentage is at most 100.
C29_EveryCallSameReport ==
    calls > 0 =>
        /\ report = FirstCallReport
        /\ HasReport =>
              /\ report.summary.valid_controls + report.summary.invalid_controls
                    <= report.summary.total_controls
              /\ report.summary.coverage_percentage <= 10000
\* what the validator's _discover_interrogators derives from the sources
\* the mapper parsed: the _check_* methods of the instantiated classes, or,
\* from the static fallback, the methods and the check_type literals
ValidatorViews ==
    {[class \in DOMAIN interrogators_dir |-> CheckMethods(class)],
     [class \in DOMAIN interrogators_dir |-> CheckLiterals(class) \cup CheckMethods(class)]}

\* C30: over the same controls and interrogator sources, the mapper gives a
\* control the status "mapped" exactly when the validator does not file it
\* as invalid.
C30_MapperAndValidatorAgree ==
    MapperRan =>
        \A c \in InCatalog : \A view \in ValidatorViews :
            ("mapped" \in StatusesOf(c)) <=> ~InvalidEntry(c, view).failed

====
